---------------------------- MODULE Spec2Model ----------------------------
(***************************************************************************)
(* A model of the grasping pipeline:                                       *)
(*   - ExecuteGraspServer.execute (scripts/execute_grasp_action_server.py) *)
(*     under SpecGrasp,                                                    *)
(*   - CreateCollisionEnvironmentServer (src/collision_environment.py)     *)
(*     under SpecColl (a batch handled by execute) and SpecWait (one       *)
(*     mutation called directly with any timeout),                         *)
(*   - the state machines of src/statemachine.py (a smach.Sequence) and    *)
(*     scripts/no_map_statemachine.py (a smach.StateMachine) under         *)
(*     SpecOrch,                                                           *)
(*   - the collision objects built from the sensed planes under SpecSynth, *)
(*   - the safety offset of a candidate's pose under SpecOffset.           *)
(*                                                                         *)
(* Units: lengths are in millimetres (0.08 -> 80, -0.004 -> -4), gripper   *)
(* forces in hundredths (0.30 -> 30), time in clock ticks.                 *)
(***************************************************************************)
EXTENDS Integers, Sequences, FiniteSets, TLC

VARIABLES
    \* ---- ExecuteGraspServer.execute -------------------------------------
    gpc,             \* position in execute
    preempt_request, \* the action server got a cancel request for the goal execute runs
    grasp_poses,     \* goal.grasp_poses: the ordered candidates
    gi,              \* index of the candidate the for loop is at (1-based)
    plan_found,      \* local plan_found
    safety_distance, \* the /safety_distance parameter
    target,          \* candidate last given to move_group.set_pose_target (0: none)
    planned,         \* candidates a plan was requested for, in order
    cmds,            \* commands sent to arm, gripper and base, in order
    step,            \* position in the post-grasp sequence
    distance,        \* gripper.get_distance() as read at line 158
    res_success,     \* res.result.success as sent with the terminal report
    reports,         \* terminal reports of the action server, in order
    log,             \* last rospy.loginfo / rospy.logerr message
    \* ---- CreateCollisionEnvironmentServer --------------------------------
    cpc,             \* position in execute / in the mutation being waited for
    goal,            \* goal.collision_objects: the batch
    ci,              \* index of the batch entry the for loop is at (1-based)
    isDone,          \* local isDone
    result,          \* result.isDone as sent by set_succeeded: "true", "false"; "none": not sent
    exp_known,       \* box_is_known argument of wait_for_state_update
    exp_attached,    \* box_is_attached argument of wait_for_state_update
    box_name,        \* name argument of wait_for_state_update
    timeout,         \* timeout argument of wait_for_state_update (ticks)
    seconds,         \* seconds - start: the clock, as last read, since the wait began
    polled,          \* is_known / is_attached as read by the last poll
    ret,             \* what each entry of the batch returned: "ok" (True), "failed" (False), "skipped"
    issued,          \* requests given to the planning scene in this batch, in order
    octomap_clears,  \* calls of /clear_octomap in this batch
    shutdown,        \* rospy.is_shutdown()
    \* ---- the planning scene (move_group) ---------------------------------
    known,           \* names of the world objects
    attached,        \* names of the attached objects
    pending,         \* the request published and not yet processed
    \* ---- history of the scene, for the round-trip laws -------------------
    snap,            \* the two sets as they were when the first mutation of a
                     \* round trip (ADD then REMOVE, ATTACH then DETACH) was issued
    \* ---- the state machines ----------------------------------------------
    sm,              \* the machine that runs: "statemachine", "no_map_statemachine"
    enable_userinput, \* argument of create_statemachine
    do_handover,     \* argument of create_statemachine
    state,           \* label of the current state, or how the machine ended
    prev,            \* label of the state that ran last
    outcome,         \* the outcome it returned
    perception,      \* what the last CREATE_COLLISION_OBJECTS met: "boxes", an exception; "none"
    env_isDone,      \* isDone of the last batch result: "true", "false"; "none": no result
    char_in,         \* the command UserInput.execute read last
    find_grasppoint_method, \* userdata.find_grasppoint_method (-1: not set)
    found_grasp_pose, \* userdata.found_grasp_pose is set
    \* ---- the collision objects built from the sensed planes -------------
    spc,             \* position in the builder
    builder,         \* who builds: "CreateCollisionObjects", "ExecuteGraspServer"
    planes,          \* response.plane_bounding_boxes.boxes
    base,            \* omni_base.get_pose().pos
    table_bbs,       \* table_bbs.boxes / coll_objects
    collision_objects, \* the batch that is sent
    \* ---- the safety offset of a candidate --------------------------------
    opc,             \* position in the loop body
    pose_in,         \* grasp_pose.pose.position as received
    goal_position,   \* the position field of the candidate in goal.grasp_poses
    orientation,     \* grasp_pose.pose.orientation as (x, y, z, w)
    osd,             \* safety_distance
    odom_shift,      \* the transform from the candidate's frame to /odom
    approach_vector, \* local approach_vector
    offset_position, \* grasp_pose.pose.position after lines 110-115
    target_position, \* the position given to set_pose_target
    \* ---- the stages and the collision server together -------------------
    stage_pc,        \* "run"; "waiting": the stage is in wait_for_result
    inbox            \* the batches sent to the server and not yet taken by execute

gvars == <<gpc, preempt_request, grasp_poses, gi, plan_found, safety_distance, target, planned,
           cmds, step, distance, res_success, reports, log>>

cvars == <<cpc, goal, ci, isDone, result, exp_known, exp_attached, box_name,
           timeout, seconds, polled, ret, issued, octomap_clears,
           shutdown, known, attached, pending, snap>>

ovars == <<sm, enable_userinput, do_handover, state, prev, outcome, perception, env_isDone,
           char_in, find_grasppoint_method, found_grasp_pose>>

\* What the two servers leave alone.
svars == <<spc, builder, planes, base, table_bbs, collision_objects>>

pvars == <<opc, pose_in, goal_position, orientation, osd, odom_shift, approach_vector,
           offset_position, target_position>>

\* What links a stage that sends a batch to the server that applies it.
lvars == <<stage_pc, inbox>>

xvars == <<ovars, svars, pvars, lvars>>

vars == <<gvars, cvars, xvars>>

(***************************************************************************)
(* Bounds of the model.                                                    *)
(***************************************************************************)
MaxCands == 3      \* candidates per grasp request
MaxPts == 2        \* waypoints of a plan
MaxBatch == 2      \* entries per collision batch
MaxTimeout == 4    \* timeout values tried when a mutation is called directly
MaxPlanes == 2     \* sensed planes per point cloud
MaxLatency == 2    \* ticks the scene queries and the sleep of one poll may overrun
BatchTimeout == 2  \* the timeout=4 of a batch's mutations, scaled down to ticks

(***************************************************************************)
(* Program constants.                                                      *)
(***************************************************************************)
SafetyDefault == 80     \* rospy.get_param("/safety_distance", default=0.08)
CloseForce == 30        \* gripper.apply_force(0.30)
VerifyForce == 50       \* gripper.apply_force(0.50)
RaiseDelta == 50        \* pose_vec.z + 0.05
BaseRetreat == -200     \* omni_base.go_rel(-0.2, 0.0, 0.0, 10)
ApertureThreshold == -4 \* gripper.get_distance() > -0.004
OpenCommand == 1        \* gripper.command(1.0)
PollInterval == 1       \* rospy.sleep(0.1); one tick is 0.1

(***************************************************************************)
(* ExecuteGraspServer.execute                                              *)
(***************************************************************************)
\* A candidate: the frame tag of its header and the number of waypoints the
\* planner returns for its pose (move_group.plan()[1].joint_trajectory.points).
FrameTags == {"", "map"}

Candidate == [frame : FrameTags, pts : 0..MaxPts]

RECURSIVE SeqsUpTo(_, _)
SeqsUpTo(S, n) ==
    IF n = 0 THEN {<<>>}
    ELSE LET shorter == SeqsUpTo(S, n - 1)
         IN  shorter \cup {Append(q, x) : q \in {r \in shorter : Len(r) = n - 1}, x \in S}

SafetyDistances == {SafetyDefault, 50}

Apertures == {-10, -5, -4, -3, 0, 20}

Cmd(op, arg) == [op |-> op, arg |-> arg]

\* Commands that move the robot: plan execution, gripper, end effector, base.
MotionOps == {"go", "apply_force", "command", "move_end_effector_by_line",
              "move_end_effector_pose", "go_rel", "move_to_neutral"}

\* Lines 137-154, mutated: the gripper closes before the end effector has
\* moved up to the object.
PostGraspSeq_CloseFirst(sd, tgt) ==
    << Cmd("go", tgt),
       Cmd("apply_force", CloseForce),
       Cmd("move_end_effector_by_line", sd),
       Cmd("move_end_effector_pose", RaiseDelta),
       Cmd("move_end_effector_by_line", -sd),
       Cmd("go_rel", BaseRetreat),
       Cmd("move_to_neutral", 0) >>

\* Lines 137-154: the commands between the loop and the verification.
PostGraspSeq(sd, tgt) ==
    << Cmd("go", tgt),
       Cmd("move_end_effector_by_line", sd),
       Cmd("apply_force", CloseForce),
       Cmd("move_end_effector_pose", RaiseDelta),
       Cmd("move_end_effector_by_line", -sd),
       Cmd("go_rel", BaseRetreat),
       Cmd("move_to_neutral", 0) >>

GraspIdle ==
    /\ gpc = "idle" /\ grasp_poses = <<>> /\ gi = 1 /\ plan_found = FALSE
    /\ target = 0 /\ planned = <<>> /\ cmds = <<>> /\ step = 0
    /\ distance = 0 /\ res_success = FALSE /\ reports = <<>> /\ log = ""
    /\ preempt_request = FALSE

\* The action server hands a goal to execute; lines 88-95.  Lines 89-94
\* rebuild the collision objects and clear the octomap: they command no motion.
ReceiveGoal ==
    /\ gpc = "idle"
    /\ \E poses \in SeqsUpTo(Candidate, MaxCands) : grasp_poses' = poses
    /\ \E sd \in SafetyDistances : safety_distance' = sd
    /\ gpc' = "loop"
    /\ gi' = 1
    /\ plan_found' = FALSE
    /\ target' = 0
    /\ planned' = <<>>
    /\ cmds' = <<>>
    /\ step' = 0
    /\ distance' = 0
    /\ res_success' = FALSE
    /\ reports' = <<>>
    /\ log' = ""
    /\ preempt_request' = FALSE
    /\ UNCHANGED <<cvars, xvars>>

\* Lines 97-100, mutated: the return of line 100 without the set_aborted of
\* line 99.
InvalidCandidate_NoReport ==
    /\ gpc = "loop"
    /\ gi <= Len(grasp_poses)
    /\ grasp_poses[gi].frame = ""
    /\ log' = "Not a valid goal. Aborted execution!"
    /\ res_success' = FALSE
    /\ gpc' = "done"
    /\ UNCHANGED <<grasp_poses, gi, plan_found, safety_distance, target, planned,
                   cmds, step, distance, reports>>
    /\ UNCHANGED preempt_request
    /\ UNCHANGED <<cvars, xvars>>

\* Lines 97-100: a candidate without a frame tag aborts the request.
InvalidCandidate ==
    /\ gpc = "loop"
    /\ gi <= Len(grasp_poses)
    /\ grasp_poses[gi].frame = ""
    /\ log' = "Not a valid goal. Aborted execution!"
    /\ reports' = Append(reports, "aborted")
    /\ res_success' = FALSE
    /\ gpc' = "done"
    /\ UNCHANGED <<grasp_poses, gi, plan_found, safety_distance, target, planned,
                   cmds, step, distance>>
    /\ UNCHANGED preempt_request
    /\ UNCHANGED <<cvars, xvars>>

\* Lines 102-126, mutated: the break of line 126 is missing.
PlanCandidate_NoBreak ==
    /\ gpc = "loop"
    /\ gi <= Len(grasp_poses)
    /\ grasp_poses[gi].frame # ""
    /\ target' = gi
    /\ planned' = Append(planned, gi)
    /\ plan_found' = (plan_found \/ grasp_poses[gi].pts > 0)
    /\ gi' = gi + 1
    /\ gpc' = IF gi = Len(grasp_poses) /\ plan_found' THEN "post" ELSE "loop"
    /\ UNCHANGED <<grasp_poses, safety_distance, cmds, step, distance,
                   res_success, reports, log>>
    /\ UNCHANGED preempt_request
    /\ UNCHANGED <<cvars, xvars>>

\* Lines 102-126: the pose of the candidate becomes the pose target and a plan
\* is requested; a plan with a waypoint ends the loop.
PlanCandidate ==
    /\ gpc = "loop"
    /\ gi <= Len(grasp_poses)
    /\ grasp_poses[gi].frame # ""
    /\ target' = gi
    /\ planned' = Append(planned, gi)
    /\ IF grasp_poses[gi].pts > 0
       THEN /\ plan_found' = TRUE
            /\ gpc' = "post"
            /\ gi' = gi
       ELSE /\ plan_found' = plan_found
            /\ gpc' = "loop"
            /\ gi' = gi + 1
    /\ UNCHANGED <<grasp_poses, safety_distance, cmds, step, distance,
                   res_success, reports, log>>
    /\ UNCHANGED preempt_request
    /\ UNCHANGED <<cvars, xvars>>

\* Lines 128-135, mutated: the return of line 135 is missing.
NoPlan_NoReturn ==
    /\ gpc = "loop"
    /\ gi > Len(grasp_poses)
    /\ ~plan_found
    /\ log' = "no grasp found"
    /\ cmds' = Append(cmds, Cmd("stop", 0))
    /\ res_success' = FALSE
    /\ reports' = Append(reports, "aborted")
    /\ gpc' = "post"
    /\ UNCHANGED <<grasp_poses, gi, plan_found, safety_distance, target, planned,
                   step, distance>>
    /\ UNCHANGED preempt_request
    /\ UNCHANGED <<cvars, xvars>>

\* Lines 128-135: the loop ended without a plan.
NoPlan ==
    /\ gpc = "loop"
    /\ gi > Len(grasp_poses)
    /\ ~plan_found
    /\ log' = "no grasp found"
    /\ cmds' = Append(cmds, Cmd("stop", 0))
    /\ target' = 0
    /\ res_success' = FALSE
    /\ reports' = Append(reports, "aborted")
    /\ gpc' = "done"
    /\ UNCHANGED <<grasp_poses, gi, plan_found, safety_distance, planned,
                   step, distance>>
    /\ UNCHANGED preempt_request
    /\ UNCHANGED <<cvars, xvars>>

\* Lines 137-154, one command per step.
PostGrasp ==
    /\ gpc = "post"
    /\ step < Len(PostGraspSeq(safety_distance, target))
    /\ step' = step + 1
    /\ cmds' = Append(cmds, PostGraspSeq(safety_distance, target)[step + 1])
    /\ UNCHANGED <<gpc, grasp_poses, gi, plan_found, safety_distance, target,
                   planned, distance, res_success, reports, log>>
    /\ UNCHANGED preempt_request
    /\ UNCHANGED <<cvars, xvars>>

\* Lines 156-166, mutated: the comparison of line 158 is turned around.
Verify_Below ==
    /\ gpc = "post"
    /\ step = Len(PostGraspSeq(safety_distance, target))
    /\ \E d \in Apertures :
         /\ distance' = d
         /\ IF d < ApertureThreshold
            THEN /\ cmds' = Append(cmds, Cmd("apply_force", VerifyForce))
                 /\ res_success' = TRUE
                 /\ reports' = Append(reports, "succeeded")
                 /\ log' = log
            ELSE /\ cmds' = cmds \o << Cmd("apply_force", VerifyForce),
                                       Cmd("command", OpenCommand) >>
                 /\ res_success' = FALSE
                 /\ reports' = Append(reports, "aborted")
                 /\ log' = "grasping failed"
    /\ gpc' = "done"
    /\ UNCHANGED <<grasp_poses, gi, plan_found, safety_distance, target, planned,
                   step>>
    /\ UNCHANGED preempt_request
    /\ UNCHANGED <<cvars, xvars>>

\* Lines 156-166: the stronger force, the aperture reading and the report.
Verify ==
    /\ gpc = "post"
    /\ step = Len(PostGraspSeq(safety_distance, target))
    /\ \E d \in Apertures :
         /\ distance' = d
         /\ IF d > ApertureThreshold
            THEN /\ cmds' = Append(cmds, Cmd("apply_force", VerifyForce))
                 /\ res_success' = TRUE
                 /\ reports' = Append(reports, "succeeded")
                 /\ log' = log
            ELSE /\ cmds' = cmds \o << Cmd("apply_force", VerifyForce),
                                       Cmd("command", OpenCommand) >>
                 /\ res_success' = FALSE
                 /\ reports' = Append(reports, "aborted")
                 /\ log' = "grasping failed"
    /\ gpc' = "done"
    /\ UNCHANGED <<grasp_poses, gi, plan_found, safety_distance, target, planned,
                   step>>
    /\ UNCHANGED preempt_request
    /\ UNCHANGED <<cvars, xvars>>

\* A cancel request for the goal that execute is running reaches the action
\* server (line 48): the server notes the request.  execute (lines 87-166)
\* never calls is_preempt_requested and no preempt callback is registered,
\* so nothing else changes.
CancelRequest ==
    /\ gpc \in {"loop", "post"}
    /\ ~preempt_request
    /\ preempt_request' = TRUE
    /\ UNCHANGED <<gpc, grasp_poses, gi, plan_found, safety_distance, target,
                   planned, cmds, step, distance, res_success, reports, log>>
    /\ UNCHANGED <<cvars, xvars>>

\* execute has returned; the action server waits for the next goal.
GraspReturns ==
    /\ gpc = "done"
    /\ gpc' = "idle" /\ grasp_poses' = <<>> /\ gi' = 1 /\ plan_found' = FALSE
    /\ target' = 0 /\ planned' = <<>> /\ cmds' = <<>> /\ step' = 0
    /\ distance' = 0 /\ res_success' = FALSE /\ reports' = <<>> /\ log' = ""
    /\ UNCHANGED safety_distance
    /\ preempt_request' = FALSE
    /\ UNCHANGED <<cvars, xvars>>

(***************************************************************************)
(* The planning scene the server talks to (moveit_commander's              *)
(* PlanningSceneInterface and the move_group node behind it).  A request   *)
(* is published and processed later, or never; the server only sees the    *)
(* two membership queries.                                                 *)
(***************************************************************************)
Names == {"a", "b"}

Methods == {"ADD", "REMOVE", "ATTACH", "DETACH", "OTHER"}

Entry == [method : Methods, name : Names]

Req(op, n) == [op |-> op, name |-> n]

NoReq == Req("none", "")

NoSnap == [set |-> FALSE, known |-> {}, attached |-> {}]

\* The world objects after the scene processed request r.  A request without
\* a name (as in the constructor, lines 43-44) is about every object.
KnownAfter(r, k, a) ==
    CASE r.op = "add_box" -> k \cup {r.name}
      [] r.op = "remove_world_object" ->
             IF r.name = "" THEN {} ELSE k \ {r.name}
      [] r.op = "attach_box" -> k \ {r.name}
      [] r.op = "remove_attached_object" ->
             IF r.name = "" THEN k \cup a
             ELSE IF r.name \in a THEN k \cup {r.name} ELSE k
      [] OTHER -> k

\* The attached objects after the scene processed request r.
AttachedAfter(r, k, a) ==
    CASE r.op = "attach_box" -> a \cup {r.name}
      [] r.op = "remove_attached_object" ->
             IF r.name = "" THEN {} ELSE a \ {r.name}
      [] OTHER -> a

\* move_group processes the published request while the server waits.
SceneProcess ==
    /\ pending # NoReq
    /\ cpc \in {"check", "poll", "sleep"}
    /\ known' = KnownAfter(pending, known, attached)
    /\ attached' = AttachedAfter(pending, known, attached)
    /\ pending' = NoReq
    /\ UNCHANGED <<cpc, goal, ci, isDone, result, exp_known, exp_attached,
                   box_name, timeout, seconds, polled, ret, issued,
                   octomap_clears, shutdown, snap>>
    /\ UNCHANGED <<gvars, xvars>>

\* rospy.signal_shutdown: the node is shut down.
Shutdown ==
    /\ ~shutdown
    /\ shutdown' = TRUE
    /\ UNCHANGED <<cpc, goal, ci, isDone, result, exp_known, exp_attached,
                   box_name, timeout, seconds, polled, ret, issued,
                   octomap_clears, known, attached, pending, snap>>
    /\ UNCHANGED <<gvars, xvars>>

(***************************************************************************)
(* CreateCollisionEnvironmentServer                                        *)
(***************************************************************************)
\* Lines 122-128: the request is published and wait_for_state_update is
\* entered; start and seconds are read.
EnterWait(req, n, is_known, is_attached, t) ==
    /\ pending' = req
    /\ issued' = IF ci > 0 THEN Append(issued, req) ELSE <<req>>
    /\ box_name' = n
    /\ exp_known' = is_known
    /\ exp_attached' = is_attached
    /\ timeout' = t
    /\ seconds' = 0
    /\ polled' = [known |-> FALSE, attached |-> FALSE]
    /\ cpc' = "check"

\* Lines 90-93, mutated: remove_world_object is called without the name.
remove_box_all(n, t) ==
    EnterWait(Req("remove_world_object", ""), n, FALSE, FALSE, t)

\* Lines 90-93, mutated: the object is detached instead of removed.
remove_box_detaching(n, t) ==
    EnterWait(Req("remove_attached_object", n), n, FALSE, FALSE, t)

\* Lines 90-93.
remove_box(n, t) ==
    EnterWait(Req("remove_world_object", n), n, FALSE, FALSE, t)

\* Lines 95-104.
add_box(n, t) ==
    EnterWait(Req("add_box", n), n, TRUE, FALSE, t)

\* Lines 106-115.
attach_box(n, t) ==
    EnterWait(Req("attach_box", n), n, FALSE, TRUE, t)

\* Lines 117-120, mutated: remove_attached_object is called without the name.
detach_box_all(n, t) ==
    EnterWait(Req("remove_attached_object", ""), n, TRUE, FALSE, t)

\* Lines 117-120.
detach_box(n, t) ==
    EnterWait(Req("remove_attached_object", n), n, TRUE, FALSE, t)

\* The entry at i starts a round trip: the next entry undoes it by name.
StartsRoundTrip(g, i) ==
    /\ i < Len(g)
    /\ g[i].name = g[i + 1].name
    /\ \/ g[i].method = "ADD" /\ g[i + 1].method = "REMOVE"
       \/ g[i].method = "ATTACH" /\ g[i + 1].method = "DETACH"

\* Lines 61-64, mutated: the octomap is cleared only for a batch with entries.
Execute_ClearIfEntries ==
    /\ cpc = "idle"
    /\ ~shutdown
    /\ \E g \in SeqsUpTo(Entry, MaxBatch) :
         /\ goal' = g
         /\ octomap_clears' = IF g = << >> THEN 0 ELSE 1
    /\ isDone' = TRUE
    /\ ci' = 1
    /\ ret' = <<>>
    /\ issued' = <<>>
    /\ result' = "none"
    /\ cpc' = "loop"
    /\ UNCHANGED <<exp_known, exp_attached, box_name, timeout, seconds,
                   polled, shutdown, known, attached, pending, snap>>
    /\ UNCHANGED <<gvars, xvars>>

\* Lines 61-64: a batch arrives; the octomap is cleared.
Execute ==
    /\ cpc = "idle"
    /\ ~shutdown
    /\ \E g \in SeqsUpTo(Entry, MaxBatch) : goal' = g
    /\ octomap_clears' = 1
    /\ isDone' = TRUE
    /\ ci' = 1
    /\ ret' = <<>>
    /\ issued' = <<>>
    /\ result' = "none"
    /\ cpc' = "loop"
    /\ UNCHANGED <<exp_known, exp_attached, box_name, timeout, seconds,
                   polled, shutdown, known, attached, pending, snap>>
    /\ UNCHANGED <<gvars, xvars>>

\* Lines 66-84: the entry's method selects the mutation.
Dispatch ==
    /\ cpc = "loop"
    /\ ci <= Len(goal)
    /\ goal[ci].method # "OTHER"
    /\ CASE goal[ci].method = "ADD" -> add_box(goal[ci].name, BatchTimeout)
         [] goal[ci].method = "REMOVE" -> remove_box(goal[ci].name, BatchTimeout)
         [] goal[ci].method = "ATTACH" -> attach_box(goal[ci].name, BatchTimeout)
         [] goal[ci].method = "DETACH" -> detach_box(goal[ci].name, BatchTimeout)
    /\ snap' = IF StartsRoundTrip(goal, ci)
               THEN [set |-> TRUE, known |-> known, attached |-> attached]
               ELSE IF ci > 1 /\ StartsRoundTrip(goal, ci - 1) THEN snap ELSE NoSnap
    /\ UNCHANGED <<goal, ci, isDone, result, ret, octomap_clears, shutdown,
                   known, attached>>
    /\ UNCHANGED <<gvars, xvars>>

\* Lines 66-84, mutated: a final else branch sets isDone to False.
SkipEntry_Fails ==
    /\ cpc = "loop"
    /\ ci <= Len(goal)
    /\ goal[ci].method = "OTHER"
    /\ ci' = ci + 1
    /\ ret' = Append(ret, "skipped")
    /\ snap' = NoSnap
    /\ isDone' = FALSE
    /\ UNCHANGED <<cpc, goal, result, exp_known, exp_attached, box_name,
                   timeout, seconds, polled, issued, octomap_clears,
                   shutdown, known, attached, pending>>
    /\ UNCHANGED <<gvars, xvars>>

\* Lines 66-84: an entry with none of the four methods matches no branch.
SkipEntry ==
    /\ cpc = "loop"
    /\ ci <= Len(goal)
    /\ goal[ci].method = "OTHER"
    /\ ci' = ci + 1
    /\ ret' = Append(ret, "skipped")
    /\ snap' = NoSnap
    /\ UNCHANGED <<cpc, goal, isDone, result, exp_known, exp_attached, box_name,
                   timeout, seconds, polled, issued, octomap_clears,
                   shutdown, known, attached, pending>>
    /\ UNCHANGED <<gvars, xvars>>

RetVal(v) == IF v THEN "ok" ELSE "failed"

\* Lines 73-84, mutated: isDone is assigned the last return value.
Return_LastWins(v) ==
    /\ ret' = IF ci > 0 THEN Append(ret, RetVal(v)) ELSE <<RetVal(v)>>
    /\ pending' = NoReq
    /\ isDone' = IF ci > 0 THEN v ELSE isDone
    /\ ci' = IF ci > 0 THEN ci + 1 ELSE ci
    /\ cpc' = IF ci > 0 THEN "loop" ELSE "idle"
    /\ box_name' = "" /\ exp_known' = FALSE /\ exp_attached' = FALSE
    /\ timeout' = 0 /\ seconds' = 0

\* Lines 73-84, mutated: a failed mutation ends the loop.
Return_Break(v) ==
    /\ ret' = IF ci > 0 THEN Append(ret, RetVal(v)) ELSE <<RetVal(v)>>
    /\ pending' = NoReq
    /\ isDone' = IF ci > 0 /\ v = FALSE THEN FALSE ELSE isDone
    /\ ci' = IF ci > 0 THEN (IF v THEN ci + 1 ELSE Len(goal) + 1) ELSE ci
    /\ cpc' = IF ci > 0 THEN "loop" ELSE "idle"
    /\ box_name' = "" /\ exp_known' = FALSE /\ exp_attached' = FALSE
    /\ timeout' = 0 /\ seconds' = 0

\* Back in the caller with the mutation's return value v: execute folds it
\* into isDone (lines 73-84) and goes on with the next entry; a direct call
\* (ci = 0) is over.  The locals of wait_for_state_update are gone.  A request
\* the scene has not processed by now is one it rejected.
Return(v) ==
    /\ ret' = IF ci > 0 THEN Append(ret, RetVal(v)) ELSE <<RetVal(v)>>
    /\ pending' = NoReq
    /\ isDone' = IF ci > 0 /\ v = FALSE THEN FALSE ELSE isDone
    /\ ci' = IF ci > 0 THEN ci + 1 ELSE ci
    /\ cpc' = IF ci > 0 THEN "loop" ELSE "idle"
    /\ box_name' = "" /\ exp_known' = FALSE /\ exp_attached' = FALSE
    /\ timeout' = 0 /\ seconds' = 0

\* Line 129, mutated: the loop goes on while seconds - start <= timeout.
WaitCheck_Inclusive ==
    /\ cpc = "check"
    /\ IF seconds <= timeout /\ ~shutdown
       THEN /\ cpc' = "poll"
            /\ UNCHANGED <<ret, pending, isDone, ci, box_name, exp_known,
                           exp_attached, timeout, seconds>>
       ELSE Return(FALSE)
    /\ UNCHANGED <<goal, result, polled, issued, octomap_clears, shutdown,
                   known, attached, snap>>
    /\ UNCHANGED <<gvars, xvars>>

\* Line 129: the loop condition; line 147 when it fails.
WaitCheck ==
    /\ cpc = "check"
    /\ IF seconds < timeout /\ ~shutdown
       THEN /\ cpc' = "poll"
            /\ UNCHANGED <<ret, pending, isDone, ci, box_name, exp_known,
                           exp_attached, timeout, seconds>>
       ELSE Return(FALSE)
    /\ UNCHANGED <<goal, result, polled, issued, octomap_clears, shutdown,
                   known, attached, snap>>
    /\ UNCHANGED <<gvars, xvars>>

\* Lines 130-140, mutated: only is_known is compared.
Poll_KnownOnly ==
    /\ cpc = "poll"
    /\ polled' = [known |-> box_name \in known, attached |-> box_name \in attached]
    /\ IF exp_known = polled'.known
       THEN Return(TRUE)
       ELSE /\ cpc' = "sleep"
            /\ UNCHANGED <<ret, pending, isDone, ci, box_name, exp_known,
                           exp_attached, timeout, seconds>>
    /\ UNCHANGED <<goal, result, issued, octomap_clears, shutdown,
                   known, attached, snap>>
    /\ UNCHANGED <<gvars, xvars>>

\* Lines 130-140: the two membership queries and the comparison.
Poll ==
    /\ cpc = "poll"
    /\ polled' = [known |-> box_name \in known, attached |-> box_name \in attached]
    /\ IF exp_attached = polled'.attached /\ exp_known = polled'.known
       THEN Return(TRUE)
       ELSE /\ cpc' = "sleep"
            /\ UNCHANGED <<ret, pending, isDone, ci, box_name, exp_known,
                           exp_attached, timeout, seconds>>
    /\ UNCHANGED <<goal, result, issued, octomap_clears, shutdown,
                   known, attached, snap>>
    /\ UNCHANGED <<gvars, xvars>>

\* Lines 142-144: sleep one poll interval and read the clock.  The queries of
\* the poll and the sleep take between PollInterval and PollInterval +
\* MaxLatency ticks together.
Sleep ==
    /\ cpc = "sleep"
    /\ \E l \in 0..MaxLatency : seconds' = seconds + PollInterval + l
    /\ cpc' = "check"
    /\ UNCHANGED <<goal, ci, isDone, result, exp_known, exp_attached, box_name,
                   timeout, polled, ret, issued, octomap_clears, shutdown,
                   known, attached, pending, snap>>
    /\ UNCHANGED <<gvars, xvars>>

\* Lines 86-88: the aggregate is sent.
Finish ==
    /\ cpc = "loop"
    /\ ci > Len(goal)
    /\ result' = IF isDone THEN "true" ELSE "false"
    /\ cpc' = "done"
    /\ UNCHANGED <<goal, ci, isDone, exp_known, exp_attached, box_name, timeout,
                   seconds, polled, ret, issued, octomap_clears,
                   shutdown, known, attached, pending, snap>>
    /\ UNCHANGED <<gvars, xvars>>

\* execute has returned; the action server waits for the next goal.
ExecuteReturns ==
    /\ cpc = "done"
    /\ cpc' = "idle" /\ goal' = <<>> /\ ci' = 0 /\ isDone' = TRUE /\ result' = "none"
    /\ exp_known' = FALSE /\ exp_attached' = FALSE /\ box_name' = ""
    /\ timeout' = 0 /\ seconds' = 0
    /\ polled' = [known |-> FALSE, attached |-> FALSE]
    /\ ret' = <<>> /\ issued' = <<>> /\ octomap_clears' = 0 /\ snap' = NoSnap
    /\ UNCHANGED <<shutdown, known, attached, pending>>
    /\ UNCHANGED <<gvars, xvars>>

\* One mutation called directly, with a timeout of the caller's choice.
CallMutation ==
    /\ cpc = "idle"
    /\ ci = 0
    /\ ~shutdown
    /\ \E n \in Names, t \in 0..MaxTimeout :
         \/ add_box(n, t)
         \/ remove_box(n, t)
         \/ attach_box(n, t)
         \/ detach_box(n, t)
    /\ UNCHANGED <<goal, ci, isDone, result, ret, octomap_clears, shutdown,
                   known, attached, snap>>
    /\ UNCHANGED <<gvars, xvars>>

(***************************************************************************)
(* The state machines.  A container holds the states in the order they     *)
(* were added, each with its registered outcomes and the transitions given *)
(* to add.  A smach.Sequence binds the connector outcome of a state, when  *)
(* add left it unbound, to the state added next; an outcome that is bound  *)
(* to nothing falls through as an outcome of the container when the        *)
(* container has it, and is an InvalidTransitionError otherwise.           *)
(***************************************************************************)
Connector == "succeeded"       \* connector_outcome='succeeded'

ContainerOutcomes == {"end"}   \* outcomes=['end']

\* The outcomes of a smach_ros.SimpleActionState.
ActionOutcomes == {"succeeded", "aborted", "preempted"}

Unbound == "None"

NoTransitions == [o \in {} |-> Unbound]

Added(label, outs, trans) ==
    [label |-> label, outcomes |-> outs, transitions |-> trans]

\* statemachine.py, lines 30-37, mutated: without the operator gates the
\* failures go back to METHOD_DECISION.
abort_state_decision(eu) ==
    IF eu THEN "FIND_GRASP_USERINPUT" ELSE "METHOD_DECISION"

\* statemachine.py, lines 30-37: where the failures of FIND_GRASP and
\* CREATE_COLLISION_ENVIRONMENT go.
abort_state(eu) ==
    IF eu THEN "FIND_GRASP_USERINPUT" ELSE "FIND_GRASP"

\* Lines 32-35: the keys of the first gate select 'succeeded' or 'reset'.
FIND_GRASP_USERINPUT_transitions == ("reset" :> "GO_TO_NEUTRAL")

\* Lines 45-46.
FIND_GRASP_transitions(eu) ==
    [o \in {"aborted", "preempted"} |-> abort_state(eu)]

\* Lines 49-52: the keys of the second gate select 'succeeded' or 'retry'.
EXECUTE_GRASP_USERINPUT_transitions == ("retry" :> "FIND_GRASP")

\* Lines 59-60, mutated: an aborted batch goes on to the grasp.
CREATE_COLLISION_ENVIRONMENT_transitions_on(eu) ==
    ("aborted" :> "EXECUTE_GRASP") @@ ("preempted" :> abort_state(eu))

\* Lines 59-60.
CREATE_COLLISION_ENVIRONMENT_transitions(eu) ==
    [o \in {"aborted", "preempted"} |-> abort_state(eu)]

\* Lines 65-66, mutated: a failed grasp goes back to the retry gate.
EXECUTE_GRASP_transitions_retry(eu) ==
    [o \in {"aborted", "preempted"} |-> abort_state(eu)]

\* Lines 65-66.
EXECUTE_GRASP_transitions(eu) ==
    [o \in {"aborted", "preempted"} |-> "GO_TO_NEUTRAL"]

\* Lines 71-74.
HANDOVER_transitions ==
    [o \in ActionOutcomes |-> "GO_TO_NEUTRAL"]

\* Lines 79-80: CALC_AND_SORT_POSES is added without transitions.
CALC_AND_SORT_POSES_transitions == NoTransitions

\* The outcomes of GoToNeutral, OpenGripper and GoBack (states.robot_control).
RobotControlOutcomes == {"succeeded"}

\* The outcomes of UserInput(map) (states.userinput): the ones its map names.
UserInputOutcomes(map) == {map[k] : k \in DOMAIN map}

\* statemachine.py, lines 21-82: the states in the order they are added.
create_statemachine(eu, dh) ==
    << Added("GO_TO_NEUTRAL", RobotControlOutcomes, NoTransitions),
       Added("OPEN_GRIPPER", RobotControlOutcomes, NoTransitions) >>
    \o (IF eu
        THEN << Added("FIND_GRASP_USERINPUT",
                      UserInputOutcomes(("f" :> "succeeded") @@ ("r" :> "reset")),
                      FIND_GRASP_USERINPUT_transitions) >>
        ELSE << >>)
    \o << Added("METHOD_DECISION", {"succeeded"}, NoTransitions),
          Added("FIND_GRASP", ActionOutcomes, FIND_GRASP_transitions(eu)) >>
    \o (IF eu
        THEN << Added("EXECUTE_GRASP_USERINPUT",
                      UserInputOutcomes(("g" :> "succeeded") @@ ("t" :> "retry")),
                      EXECUTE_GRASP_USERINPUT_transitions) >>
        ELSE << >>)
    \o << Added("CREATE_COLLISION_OBJECTS", {"succeeded", "aborted"}, NoTransitions),
          Added("CREATE_COLLISION_ENVIRONMENT", ActionOutcomes,
                CREATE_COLLISION_ENVIRONMENT_transitions(eu)),
          Added("EXECUTE_GRASP", ActionOutcomes, EXECUTE_GRASP_transitions(eu)),
          Added("GO_BACK_AFTER_GRASP", RobotControlOutcomes, NoTransitions) >>
    \o (IF dh
        THEN << Added("HANDOVER", ActionOutcomes, HANDOVER_transitions) >>
        ELSE << Added("CALC_AND_SORT_POSES", ActionOutcomes,
                      CALC_AND_SORT_POSES_transitions) >>)

\* no_map_statemachine.py, lines 194-254: the states of main.
main ==
    << Added("USER_INPUT",
             {"quitting", "neutral", "grasping", "opening", "find_grasp",
              "execute_grasp"},
             ("quitting" :> "end") @@ ("neutral" :> "GO_TO_NEUTRAL")
               @@ ("grasping" :> "FIND_GRASPPOINT") @@ ("opening" :> "OPENING")
               @@ ("find_grasp" :> "ONLY_FIND_GRASPPOINT")
               @@ ("execute_grasp" :> "EXECUTE_GRASP")),
       Added("GO_TO_NEUTRAL", {"succeeded"}, ("succeeded" :> "USER_INPUT")),
       Added("OPENING", {"succeeded"}, ("succeeded" :> "USER_INPUT")),
       Added("FIND_GRASPPOINT", ActionOutcomes,
             ("succeeded" :> "EXECUTE_GRASP") @@ ("preempted" :> "USER_INPUT")
               @@ ("aborted" :> "USER_INPUT")),
       Added("ONLY_FIND_GRASPPOINT", ActionOutcomes,
             [o \in ActionOutcomes |-> "USER_INPUT"]),
       Added("EXECUTE_GRASP", ActionOutcomes,
             ("succeeded" :> "NEUTRAL_BEFORE_HANDOVER")
               @@ ("preempted" :> "USER_INPUT") @@ ("aborted" :> "USER_INPUT")),
       Added("NEUTRAL_BEFORE_HANDOVER", {"succeeded"}, ("succeeded" :> "HANDOVER")),
       Added("HANDOVER", ActionOutcomes,
             ("succeeded" :> "GO_TO_NEUTRAL") @@ ("preempted" :> "USER_INPUT")
               @@ ("aborted" :> "USER_INPUT")) >>

Labels(states) == {states[i].label : i \in 1..Len(states)}

IndexOf(states, label) == CHOOSE i \in 1..Len(states) : states[i].label = label

\* The target an outcome of a state is bound to.  linked: the container is a
\* smach.Sequence.
TransitionTarget(states, linked, label, o) ==
    LET i == IndexOf(states, label) IN
    IF o \in DOMAIN states[i].transitions THEN states[i].transitions[o]
    ELSE IF linked /\ o = Connector /\ i < Len(states) THEN states[i + 1].label
    ELSE Unbound

\* Where the container is after the state label returned outcome o.
UpdateOnce(states, linked, label, o) ==
    LET t == TransitionTarget(states, linked, label, o) IN
    IF o \notin states[IndexOf(states, label)].outcomes THEN "InvalidTransitionError"
    ELSE IF t \in Labels(states) THEN t
    ELSE IF t \in ContainerOutcomes THEN t
    ELSE IF o \in ContainerOutcomes THEN o
    ELSE "InvalidTransitionError"

\* The container that runs.
Machine ==
    IF sm = "statemachine" THEN create_statemachine(enable_userinput, do_handover)
    ELSE main

\* The state label runs and returns outcome o.
RunState(label, o) ==
    /\ state = label
    /\ prev' = label
    /\ outcome' = o
    /\ state' = UpdateOnce(Machine, sm = "statemachine", label, o)
    /\ UNCHANGED <<sm, enable_userinput, do_handover>>

\* ---- statemachine.py ----------------------------------------------------
\* GoToNeutral, OpenGripper and GoBack command the robot and succeed.
RobotControl ==
    /\ sm = "statemachine"
    /\ \E label \in {"GO_TO_NEUTRAL", "OPEN_GRIPPER", "GO_BACK_AFTER_GRASP"} :
         \E o \in RobotControlOutcomes : RunState(label, o)
    /\ UNCHANGED <<env_isDone, char_in, find_grasppoint_method, found_grasp_pose>>
    /\ UNCHANGED <<perception, gvars, cvars, svars, pvars, lvars>>

\* The first gate: the operator's key selects an outcome of the map, lines 32-35.
FindGraspUserInput ==
    /\ sm = "statemachine"
    /\ \E k \in {"f", "r"} :
         /\ char_in' = k
         /\ RunState("FIND_GRASP_USERINPUT", IF k = "f" THEN "succeeded" ELSE "reset")
    /\ UNCHANGED <<env_isDone, find_grasppoint_method, found_grasp_pose>>
    /\ UNCHANGED <<perception, gvars, cvars, svars, pvars, lvars>>

\* decision, lines 15-18.
MethodDecision ==
    /\ sm = "statemachine"
    /\ RunState("METHOD_DECISION", "succeeded")
    /\ find_grasppoint_method' = 5
    /\ UNCHANGED <<env_isDone, char_in, found_grasp_pose>>
    /\ UNCHANGED <<perception, gvars, cvars, svars, pvars, lvars>>

\* Lines 43-46: the detector's action ends in one of the three outcomes.
FindGrasp ==
    /\ sm = "statemachine"
    /\ \E o \in ActionOutcomes :
         /\ RunState("FIND_GRASP", o)
         /\ found_grasp_pose' = (found_grasp_pose \/ o = "succeeded")
    /\ env_isDone' = "none"
    /\ UNCHANGED <<char_in, find_grasppoint_method>>
    /\ UNCHANGED <<perception, gvars, cvars, svars, pvars, lvars>>

\* The second gate, lines 49-52.
ExecuteGraspUserInput ==
    /\ sm = "statemachine"
    /\ \E k \in {"g", "t"} :
         /\ char_in' = k
         /\ RunState("EXECUTE_GRASP_USERINPUT", IF k = "g" THEN "succeeded" ELSE "retry")
    /\ UNCHANGED <<env_isDone, find_grasppoint_method, found_grasp_pose>>
    /\ UNCHANGED <<perception, gvars, cvars, svars, pvars, lvars>>

\* What get_table_plane_bbs meets (collision_environment.py lines 217-222):
\* a snapshot and the boxes of the extractor; no snapshot within 15 s, for
\* which rospy.wait_for_message raises ROSException; a failing extractor
\* call, which raises ServiceException.
PerceptionResults == {"boxes", "ROSException", "ServiceException"}

\* An exception e leaves the execute of state label: sm.execute() raises it
\* on as an InvalidUserCodeError, and __main__ catches only
\* ROSInterruptException (statemachine.py lines 104-116): the process ends.
RaiseOut(label, e) ==
    /\ state = label
    /\ prev' = label
    /\ outcome' = e
    /\ state' = "InvalidUserCodeError"
    /\ UNCHANGED <<sm, enable_userinput, do_handover>>

\* CreateCollisionObjects.execute, collision_environment.py lines 161-214:
\* get_table_plane_bbs is called at line 162, before the try of lines
\* 166-177, so what it raises leaves execute; otherwise the batch is built
\* and sent, the result's isDone is read and printed, and the state succeeds
\* whatever it was.  Nothing inside the try raises the exception that
\* returns 'aborted'.
CreateCollisionObjects ==
    /\ sm = "statemachine"
    /\ \E p \in PerceptionResults :
         /\ perception' = p
         /\ IF p = "boxes"
            THEN /\ \E d \in {"true", "false"} : env_isDone' = d
                 /\ RunState("CREATE_COLLISION_OBJECTS", "succeeded")
            ELSE /\ env_isDone' = "none"
                 /\ RaiseOut("CREATE_COLLISION_OBJECTS", p)
    /\ UNCHANGED <<char_in, find_grasppoint_method, found_grasp_pose>>
    /\ UNCHANGED <<gvars, cvars, svars, pvars, lvars>>

\* Lines 57-60.  The server ends every batch with set_succeeded, isDone true
\* or false (collision_environment.py lines 86-88); the action is aborted or
\* preempted only by the action layer, without a result.
CreateCollisionEnvironment ==
    /\ sm = "statemachine"
    /\ \E o \in ActionOutcomes, d \in {"true", "false"} :
         /\ RunState("CREATE_COLLISION_ENVIRONMENT", o)
         /\ env_isDone' = IF o = "succeeded" THEN d ELSE "none"
    /\ UNCHANGED <<char_in, find_grasppoint_method, found_grasp_pose>>
    /\ UNCHANGED <<perception, gvars, cvars, svars, pvars, lvars>>

\* Lines 62-66.
ExecuteGrasp ==
    /\ sm = "statemachine"
    /\ \E o \in ActionOutcomes : RunState("EXECUTE_GRASP", o)
    /\ UNCHANGED <<env_isDone, char_in, find_grasppoint_method, found_grasp_pose>>
    /\ UNCHANGED <<perception, gvars, cvars, svars, pvars, lvars>>

\* Lines 70-74.
Handover ==
    /\ sm = "statemachine"
    /\ \E o \in ActionOutcomes : RunState("HANDOVER", o)
    /\ UNCHANGED <<env_isDone, char_in, find_grasppoint_method, found_grasp_pose>>
    /\ UNCHANGED <<perception, gvars, cvars, svars, pvars, lvars>>

\* Lines 75-80.
CalcAndSortPoses ==
    /\ sm = "statemachine"
    /\ \E o \in ActionOutcomes : RunState("CALC_AND_SORT_POSES", o)
    /\ UNCHANGED <<env_isDone, char_in, find_grasppoint_method, found_grasp_pose>>
    /\ UNCHANGED <<perception, gvars, cvars, svars, pvars, lvars>>

\* ---- no_map_statemachine.py ---------------------------------------------
\* The commands UserInput.execute reads; "x": any other character.
Commands == {"q", "g", "o", "n", "p", "s", "f", "e", "x"}

\* UserInput.execute, lines 53-135: one command is read, for 'g' and 'f'
\* followed by the method; a command that does not return leaves the machine
\* in USER_INPUT.
UserInput ==
    /\ sm = "no_map_statemachine"
    /\ state = "USER_INPUT"
    /\ ~shutdown
    /\ \E c \in Commands, m \in {"1", "2"} :
         /\ char_in' = c
         /\ find_grasppoint_method' =
                IF c \in {"g", "f"} THEN (IF m = "1" THEN 1 ELSE 0)
                ELSE find_grasppoint_method
         /\ LET o == CASE c = "q" -> "quitting"
                       [] c = "g" /\ m = "1" -> "grasping"
                       [] c = "o" -> "opening"
                       [] c = "n" -> "neutral"
                       [] c = "f" /\ m = "1" -> "find_grasp"
                       [] c = "e" /\ found_grasp_pose -> "execute_grasp"
                       [] OTHER -> ""
            IN  IF o # "" THEN RunState("USER_INPUT", o)
                ELSE UNCHANGED <<sm, enable_userinput, do_handover, state, prev,
                                 outcome>>
    /\ UNCHANGED <<env_isDone, found_grasp_pose>>
    /\ UNCHANGED <<perception, gvars, cvars, svars, pvars, lvars>>

\* GoToNeutral, Opening and GoBackAndNeutral, lines 142-188.
NoMapRobotControl ==
    /\ sm = "no_map_statemachine"
    /\ \E label \in {"GO_TO_NEUTRAL", "OPENING", "NEUTRAL_BEFORE_HANDOVER"} :
         RunState(label, "succeeded")
    /\ UNCHANGED <<env_isDone, char_in, find_grasppoint_method, found_grasp_pose>>
    /\ UNCHANGED <<perception, gvars, cvars, svars, pvars, lvars>>

\* FIND_GRASPPOINT and ONLY_FIND_GRASPPOINT, lines 213-235.
NoMapFindGrasppoint ==
    /\ sm = "no_map_statemachine"
    /\ \E label \in {"FIND_GRASPPOINT", "ONLY_FIND_GRASPPOINT"}, o \in ActionOutcomes :
         /\ RunState(label, o)
         /\ found_grasp_pose' = (found_grasp_pose \/ o = "succeeded")
    /\ UNCHANGED <<env_isDone, char_in, find_grasppoint_method>>
    /\ UNCHANGED <<perception, gvars, cvars, svars, pvars, lvars>>

\* EXECUTE_GRASP and HANDOVER, lines 237-254.
NoMapActionState ==
    /\ sm = "no_map_statemachine"
    /\ \E label \in {"EXECUTE_GRASP", "HANDOVER"}, o \in ActionOutcomes :
         RunState(label, o)
    /\ UNCHANGED <<env_isDone, char_in, find_grasppoint_method, found_grasp_pose>>
    /\ UNCHANGED <<perception, gvars, cvars, svars, pvars, lvars>>

OrchIdle ==
    /\ sm = "" /\ enable_userinput = FALSE /\ do_handover = FALSE
    /\ state = "" /\ prev = "" /\ outcome = "" /\ env_isDone = "none"
    /\ perception = "none"
    /\ char_in = "" /\ find_grasppoint_method = -1 /\ found_grasp_pose = FALSE

(***************************************************************************)
(* The collision objects built from the sensed planes and the base pose:   *)
(* CreateCollisionObjects.execute (collision_environment.py), the state    *)
(* CREATE_COLLISION_OBJECTS, and get_table_collision_object with           *)
(* add_table_collision_object of ExecuteGraspServer.                       *)
(***************************************************************************)
HeightFloor == 200      \* if bb_cloud.center[2] < 0.2: continue
Inflate == 40           \* size.x + 0.04, size.y + 0.04
TableLift == 100        \* table_bb.size.z - 0.1; obj.center[2] - 0.1

\* A bounding box of the table plane extractor: center and size.
Plane == [cx : {700}, cy : {-300}, cz : {100, 196, 200, 300},
          sx : {400, 800}, sy : {600}, sz : {20, 100}]

\* omni_base.get_pose().pos
BasePositions == [x : {0, 1000}, y : {0, -500}]

Builders == {"CreateCollisionObjects", "ExecuteGraspServer"}

Obj(name, idx, frame, x, y, z, sx, sy, sz) ==
    [name |-> name, idx |-> idx, method |-> "ADD", frame |-> frame,
     x |-> x, y |-> y, z |-> z, size_x |-> sx, size_y |-> sy, size_z |-> sz]

\* Lines 223-230 and 310-311: the box reaches down to the floor and is wider
\* by 0.04 in x and y.
InflatedBox(b) ==
    [b EXCEPT !.cz = (b.cz + b.sz \div 2) \div 2,
              !.sx = b.sx + Inflate,
              !.sy = b.sy + Inflate,
              !.sz = b.cz + b.sz \div 2]

\* CreateCollisionObjects.get_table_plane_bbs, lines 216-232.
get_table_plane_bbs(boxes) ==
    [i \in 1..Len(boxes) |-> InflatedBox(boxes[i])]

\* Line 303 of execute_grasp_action_server.py.
AboveFloor(b) == ~(b.cz < HeightFloor)

\* ExecuteGraspServer.get_table_collision_object, lines 290-321.
get_table_collision_object(boxes) ==
    LET kept == SelectSeq(boxes, AboveFloor)
    IN  [i \in 1..Len(kept) |-> InflatedBox(kept[i])]

\* collision_environment.py lines 166-174, mutated: idx is not counted up.
TablePlaneObjects_SameName(bbs) ==
    [i \in 1..Len(bbs) |->
        Obj("Table_plane_", 0, "bbs.header.frame_id", bbs[i].cx, bbs[i].cy,
            bbs[i].cz, bbs[i].sx, bbs[i].sy, bbs[i].sz - TableLift)]

\* collision_environment.py lines 166-174: one ADD per box.
TablePlaneObjects(bbs) ==
    [i \in 1..Len(bbs) |->
        Obj("Table_plane_", i - 1, "bbs.header.frame_id", bbs[i].cx, bbs[i].cy,
            bbs[i].cz, bbs[i].sx, bbs[i].sy, bbs[i].sz - TableLift)]

\* execute_grasp_action_server.py lines 175-195: one ADD per box.
TableCollisionObjects(bbs) ==
    [i \in 1..Len(bbs) |->
        Obj("collision_object", i, "map", bbs[i].cx, bbs[i].cy,
            bbs[i].cz - TableLift, bbs[i].sx, bbs[i].sy, bbs[i].sz)]

\* collision_environment.py lines 179-202: the floor and the four walls.
StageFixedObjects(pos) ==
    << Obj("floor", -1, "map", pos.x, pos.y, -60, 15000, 15000, 100),
       Obj("front_wall", -1, "map", pos.x + 2000, pos.y, 50, 10, 4000, 100),
       Obj("back_wall", -1, "map", pos.x - 1500, pos.y, 50, 10, 4000, 100),
       Obj("left_wall", -1, "map", pos.x, pos.y + 2000, 50, 4000, 10, 100),
       Obj("right_wall", -1, "map", pos.x, pos.y - 2000, 50, 4000, 10, 100) >>

\* execute_grasp_action_server.py lines 197-274: the floor and the four walls.
ServerFixedObjects(pos) ==
    << Obj("floor", -1, "map", pos.x, pos.y, -70, 15000, 15000, 100),
       Obj("front_wall", -1, "map", pos.x + 1500, pos.y, 50, 10, 4000, 100),
       Obj("behind_wall", -1, "map", pos.x - 1500, pos.y, 50, 10, 4000, 100),
       Obj("left_wall", -1, "map", pos.x, pos.y + 2000, 50, 4000, 10, 100),
       Obj("right_wall", -1, "map", pos.x, pos.y - 1000, 50, 4000, 10, 100) >>

\* The point cloud is taken and the table plane extractor answers.
ExtractPlanes ==
    /\ spc = "idle"
    /\ \E b \in Builders : builder' = b
    /\ \E boxes \in SeqsUpTo(Plane, MaxPlanes) : planes' = boxes
    /\ \E pos \in BasePositions : base' = pos
    /\ table_bbs' = << >>
    /\ collision_objects' = << >>
    /\ spc' = "extracted"
    /\ UNCHANGED <<gvars, cvars, ovars, pvars, lvars>>

\* CreateCollisionObjects.execute, line 162.
StageTableBoxes ==
    /\ spc = "extracted"
    /\ builder = "CreateCollisionObjects"
    /\ table_bbs' = get_table_plane_bbs(planes)
    /\ spc' = "boxes"
    /\ UNCHANGED <<builder, planes, base, collision_objects>>
    /\ UNCHANGED <<gvars, cvars, ovars, pvars, lvars>>

\* ExecuteGraspServer.execute, line 91.
ServerTableBoxes ==
    /\ spc = "extracted"
    /\ builder = "ExecuteGraspServer"
    /\ table_bbs' = get_table_collision_object(planes)
    /\ spc' = "boxes"
    /\ UNCHANGED <<builder, planes, base, collision_objects>>
    /\ UNCHANGED <<gvars, cvars, ovars, pvars, lvars>>

\* CreateCollisionObjects.execute, lines 164-207: the batch that is sent.
StageSendGoal ==
    /\ spc = "boxes"
    /\ builder = "CreateCollisionObjects"
    /\ collision_objects' = TablePlaneObjects(table_bbs) \o StageFixedObjects(base)
    /\ spc' = "sent"
    /\ UNCHANGED <<builder, planes, base, table_bbs>>
    /\ UNCHANGED <<gvars, cvars, ovars, pvars, lvars>>

\* ExecuteGraspServer.add_table_collision_object, lines 168-278.
ServerSendGoal ==
    /\ spc = "boxes"
    /\ builder = "ExecuteGraspServer"
    /\ collision_objects' = TableCollisionObjects(table_bbs) \o ServerFixedObjects(base)
    /\ spc' = "sent"
    /\ UNCHANGED <<builder, planes, base, table_bbs>>
    /\ UNCHANGED <<gvars, cvars, ovars, pvars, lvars>>

\* The result has arrived: lines 208-214 and 279-285.
SynthReturns ==
    /\ spc = "sent"
    /\ spc' = "idle" /\ builder' = "" /\ planes' = << >> /\ table_bbs' = << >>
    /\ collision_objects' = << >>
    /\ UNCHANGED base
    /\ UNCHANGED <<gvars, cvars, ovars, pvars, lvars>>

\* The id of an entry: 'Table_plane_' + str(i) (collision_environment.py
\* line 168) or the fixed name.
ObjectId(o) == IF o.idx >= 0 THEN o.name \o ToString(o.idx) ELSE o.name

\* The batch CreateCollisionObjects.execute sends when n planes were sensed
\* (lines 164-207), as the server reads it: the method and the id of each
\* entry.  The poses do not reach the scene's two sets.
StageBatch(n) ==
    LET bbs == [i \in 1..n |-> InflatedBox([cx |-> 700, cy |-> -300, cz |-> 300,
                                             sx |-> 400, sy |-> 600, sz |-> 20])]
        objs == TablePlaneObjects(bbs) \o StageFixedObjects([x |-> 0, y |-> 0])
    IN  [i \in 1..Len(objs) |-> [method |-> objs[i].method, name |-> ObjectId(objs[i])]]

\* collision_environment.py lines 61-64 after lines 204-209 of one cycle: the
\* server gets the batch of CREATE_COLLISION_OBJECTS; the octomap is cleared.
ExecuteStageBatch ==
    /\ cpc = "idle"
    /\ ~shutdown
    /\ \E n \in 0..MaxPlanes : goal' = StageBatch(n)
    /\ octomap_clears' = 1
    /\ isDone' = TRUE
    /\ ci' = 1
    /\ ret' = <<>>
    /\ issued' = <<>>
    /\ result' = "none"
    /\ cpc' = "loop"
    /\ UNCHANGED <<exp_known, exp_attached, box_name, timeout, seconds,
                   polled, shutdown, known, attached, pending, snap>>
    /\ UNCHANGED <<gvars, xvars>>

SynthIdle ==
    /\ spc = "idle" /\ builder = "" /\ planes = << >> /\ base = [x |-> 0, y |-> 0]
    /\ table_bbs = << >> /\ collision_objects = << >>

(***************************************************************************)
(* The stages that send a batch, and the server that applies it:           *)
(* CreateCollisionObjects.execute (collision_environment.py lines 161-214) *)
(* and the action state CREATE_COLLISION_ENVIRONMENT (statemachine.py      *)
(* lines 57-60) are clients of CreateCollisionEnvironmentServer.  A goal   *)
(* that was sent waits in the action server until execute is free.         *)
(***************************************************************************)
LinkIdle == stage_pc = "run" /\ inbox = << >>

\* Lines 204-214, mutated: the stage does not wait for the result.
SendWithoutWait(g) ==
    /\ inbox' = Append(inbox, g)
    /\ stage_pc' = "run"
    /\ env_isDone' = "none"
    /\ RunState(state, "succeeded")

\* Lines 204-208: the goal is sent and the stage blocks in wait_for_result.
SendAndWait(g) ==
    /\ inbox' = Append(inbox, g)
    /\ stage_pc' = "waiting"
    /\ UNCHANGED <<sm, enable_userinput, do_handover, state, prev, outcome,
                   env_isDone>>

\* CreateCollisionObjects.execute, lines 161-208: the planes are sensed, the
\* batch is built and sent.
CollisionObjectsSend ==
    /\ sm = "statemachine"
    /\ state = "CREATE_COLLISION_OBJECTS"
    /\ stage_pc = "run"
    /\ \E p \in PerceptionResults :
         /\ perception' = p
         /\ IF p = "boxes"
            THEN \E n \in 0..MaxPlanes : SendAndWait(StageBatch(n))
            ELSE /\ env_isDone' = "none"
                 /\ RaiseOut("CREATE_COLLISION_OBJECTS", p)
                 /\ UNCHANGED lvars
    /\ UNCHANGED <<char_in, find_grasppoint_method, found_grasp_pose>>
    /\ UNCHANGED <<gvars, cvars, svars, pvars>>

\* statemachine.py lines 57-60: the action state sends its goal and waits
\* for the result.  The goal's collision_objects come from the userdata,
\* which is not modelled: a batch of collision objects.
CollisionEnvironmentSend ==
    /\ sm = "statemachine"
    /\ state = "CREATE_COLLISION_ENVIRONMENT"
    /\ stage_pc = "run"
    /\ \E n \in 0..MaxPlanes : SendAndWait(StageBatch(n))
    /\ UNCHANGED <<perception, char_in, find_grasppoint_method, found_grasp_pose>>
    /\ UNCHANGED <<gvars, cvars, svars, pvars>>

\* collision_environment.py lines 49-52 and 61-64: the action server gives
\* the oldest waiting goal to execute when execute is not running; the
\* octomap is cleared.
ExecuteSentBatch ==
    /\ cpc = "idle"
    /\ ~shutdown
    /\ inbox # << >>
    /\ goal' = Head(inbox)
    /\ inbox' = Tail(inbox)
    /\ octomap_clears' = 1
    /\ isDone' = TRUE
    /\ ci' = 1
    /\ ret' = <<>>
    /\ issued' = <<>>
    /\ result' = "none"
    /\ cpc' = "loop"
    /\ UNCHANGED <<exp_known, exp_attached, box_name, timeout, seconds,
                   polled, shutdown, known, attached, pending, snap>>
    /\ UNCHANGED <<gvars, ovars, svars, pvars, stage_pc>>

\* collision_environment.py lines 86-88 and 208-214, statemachine.py lines
\* 57-60: the result of set_succeeded reaches the waiting stage, execute
\* returns, and the stage returns 'succeeded' whatever isDone is.
ResultArrives ==
    /\ sm = "statemachine"
    /\ stage_pc = "waiting"
    /\ cpc = "done"
    /\ env_isDone' = result
    /\ RunState(state, "succeeded")
    /\ stage_pc' = "run"
    /\ cpc' = "idle" /\ goal' = <<>> /\ ci' = 0 /\ isDone' = TRUE /\ result' = "none"
    /\ exp_known' = FALSE /\ exp_attached' = FALSE /\ box_name' = ""
    /\ timeout' = 0 /\ seconds' = 0
    /\ polled' = [known |-> FALSE, attached |-> FALSE]
    /\ ret' = <<>> /\ issued' = <<>> /\ octomap_clears' = 0 /\ snap' = NoSnap
    /\ UNCHANGED <<shutdown, known, attached, pending>>
    /\ UNCHANGED <<perception, char_in, find_grasppoint_method, found_grasp_pose,
                   inbox>>
    /\ UNCHANGED <<gvars, svars, pvars>>

(***************************************************************************)
(* The safety offset of a candidate's pose: ExecuteGraspServer.execute,    *)
(* lines 102-120, and qv_mult.  Quaternions are (x, y, z, w) with integer  *)
(* components; quaternion_matrix scales by 2 / |q|^2, so the quaternions   *)
(* of squared length 1 and 2 have integer rotation matrices.               *)
(***************************************************************************)
Quaternions == {q \in [1..4 -> -1..1] :
                   q[1] * q[1] + q[2] * q[2] + q[3] * q[3] + q[4] * q[4] \in 0..2}

IdentityQuaternion == [i \in 1..4 |-> IF i = 4 THEN 1 ELSE 0]

Positions == [x : {0, 500}, y : {0, -200}, z : {400, 700}]

\* The translation of the candidate's frame in /odom.
OdomShifts == {[x |-> 0, y |-> 0, z |-> 0], [x |-> 300, y |-> -100, z |-> 0]}

\* The canonical approach vector of line 106.
ApproachAxis == <<0, 0, -1>>

\* tf.transformations.quaternion_matrix(q)[:3, :3], as called at line 415.
quaternion_matrix(q) ==
    LET nq == q[1] * q[1] + q[2] * q[2] + q[3] * q[3] + q[4] * q[4] IN
    IF nq = 0
    THEN << <<1, 0, 0>>, <<0, 1, 0>>, <<0, 0, 1>> >>
    ELSE LET o(i, j) == (2 \div nq) * q[i] * q[j]
         IN  << <<1 - o(2, 2) - o(3, 3), o(1, 2) - o(3, 4), o(1, 3) + o(2, 4)>>,
                <<o(1, 2) + o(3, 4), 1 - o(1, 1) - o(3, 3), o(2, 3) - o(1, 4)>>,
                <<o(1, 3) - o(2, 4), o(2, 3) + o(1, 4), 1 - o(1, 1) - o(2, 2)>> >>

\* qv_mult, lines 406-417: v rotated by q.
qv_mult(q, v) ==
    LET rot_mat == quaternion_matrix(q)
    IN  [i \in 1..3 |-> rot_mat[i][1] * v[1] + rot_mat[i][2] * v[2]
                          + rot_mat[i][3] * v[3]]

\* Lines 110-115, mutated: the offset is subtracted.
OffsetPosition_Minus(p, d, v) ==
    [x |-> p.x - d * v[1], y |-> p.y - d * v[2], z |-> p.z - d * v[3]]

\* Lines 110-115: the position moved by d along v.
OffsetPosition(p, d, v) ==
    [x |-> p.x + d * v[1], y |-> p.y + d * v[2], z |-> p.z + d * v[3]]

NoPosition == [x |-> 0, y |-> 0, z |-> 0]

\* A candidate of the loop of line 96, with a frame tag.
TakeCandidate ==
    /\ opc = "idle"
    /\ \E p \in Positions : pose_in' = p /\ goal_position' = p
    /\ \E q \in Quaternions : orientation' = q
    /\ \E d \in SafetyDistances : osd' = d
    /\ \E t \in OdomShifts : odom_shift' = t
    /\ approach_vector' = <<0, 0, 0>>
    /\ offset_position' = NoPosition
    /\ target_position' = NoPosition
    /\ opc' = "candidate"
    /\ UNCHANGED <<gvars, cvars, ovars, svars, lvars>>

\* Lines 103-115: the approach vector and the offset position, which is
\* assigned to the fields of the candidate itself.
OffsetCandidate ==
    /\ opc = "candidate"
    /\ approach_vector' = qv_mult(orientation, ApproachAxis)
    /\ offset_position' = OffsetPosition(pose_in, osd, approach_vector')
    /\ goal_position' = offset_position'
    /\ opc' = "offset"
    /\ UNCHANGED <<pose_in, orientation, osd, odom_shift, target_position>>
    /\ UNCHANGED <<gvars, cvars, ovars, svars, lvars>>

\* Lines 117-122: transformPose returns a new pose, in /odom, which becomes
\* the pose target.
TransformPose ==
    /\ opc = "offset"
    /\ target_position' = [x |-> offset_position.x + odom_shift.x,
                           y |-> offset_position.y + odom_shift.y,
                           z |-> offset_position.z + odom_shift.z]
    /\ opc' = "target"
    /\ UNCHANGED <<pose_in, goal_position, orientation, osd, odom_shift,
                   approach_vector, offset_position>>
    /\ UNCHANGED <<gvars, cvars, ovars, svars, lvars>>

\* The loop goes on with the next candidate.
NextCandidate ==
    /\ opc = "target"
    /\ opc' = "idle" /\ pose_in' = NoPosition /\ orientation' = IdentityQuaternion
    /\ goal_position' = NoPosition
    /\ osd' = 0 /\ odom_shift' = NoPosition /\ approach_vector' = <<0, 0, 0>>
    /\ offset_position' = NoPosition /\ target_position' = NoPosition
    /\ UNCHANGED <<gvars, cvars, ovars, svars, lvars>>

OffsetIdle ==
    /\ opc = "idle" /\ pose_in = NoPosition /\ orientation = IdentityQuaternion
    /\ goal_position = NoPosition
    /\ osd = 0 /\ odom_shift = NoPosition /\ approach_vector = <<0, 0, 0>>
    /\ offset_position = NoPosition /\ target_position = NoPosition

(***************************************************************************)
(* Specifications                                                          *)
(***************************************************************************)
\* Lines 42-44: the constructor empties the scene.
CollIdle ==
    /\ cpc = "idle" /\ goal = <<>> /\ ci = 0 /\ isDone = TRUE /\ result = "none"
    /\ exp_known = FALSE /\ exp_attached = FALSE /\ box_name = ""
    /\ timeout = 0 /\ seconds = 0
    /\ polled = [known |-> FALSE, attached |-> FALSE]
    /\ ret = <<>> /\ issued = <<>> /\ octomap_clears = 0 /\ shutdown = FALSE
    /\ known = {} /\ attached = {} /\ pending = NoReq /\ snap = NoSnap

Init ==
    /\ GraspIdle
    /\ safety_distance = SafetyDefault
    /\ CollIdle
    /\ OrchIdle
    /\ SynthIdle
    /\ OffsetIdle
    /\ LinkIdle

NextGrasp ==
    \/ ReceiveGoal
    \/ CancelRequest
    \/ InvalidCandidate
    \/ PlanCandidate
    \/ NoPlan
    \/ PostGrasp
    \/ Verify
    \/ GraspReturns

SpecGrasp == Init /\ [][NextGrasp]_vars

NextColl ==
    \/ Execute
    \/ Dispatch
    \/ SkipEntry
    \/ WaitCheck
    \/ Poll
    \/ Sleep
    \/ Finish
    \/ ExecuteReturns
    \/ SceneProcess
    \/ Shutdown

SpecColl == Init /\ [][NextColl]_vars

NextWait ==
    \/ CallMutation
    \/ WaitCheck
    \/ Poll
    \/ Sleep
    \/ SceneProcess
    \/ Shutdown

SpecWait == Init /\ [][NextWait]_vars

\* sm.execute(): a container starts in the state added first.
InitOrch ==
    /\ GraspIdle
    /\ safety_distance = SafetyDefault
    /\ CollIdle
    /\ sm \in {"statemachine", "no_map_statemachine"}
    /\ enable_userinput \in BOOLEAN
    /\ do_handover \in BOOLEAN
    /\ sm = "no_map_statemachine" => (enable_userinput /\ do_handover)
    /\ state = Machine[1].label
    /\ prev = "" /\ outcome = "" /\ env_isDone = "none"
    /\ perception = "none"
    /\ char_in = "" /\ find_grasppoint_method = -1 /\ found_grasp_pose = FALSE
    /\ SynthIdle
    /\ OffsetIdle
    /\ LinkIdle

NextOrch ==
    \/ RobotControl
    \/ FindGraspUserInput
    \/ MethodDecision
    \/ FindGrasp
    \/ ExecuteGraspUserInput
    \/ CreateCollisionObjects
    \/ CreateCollisionEnvironment
    \/ ExecuteGrasp
    \/ Handover
    \/ CalcAndSortPoses
    \/ UserInput
    \/ NoMapRobotControl
    \/ NoMapFindGrasppoint
    \/ NoMapActionState

SpecOrch == InitOrch /\ [][NextOrch]_vars

\* Every call of a state returns: the state that is current runs and the
\* machine takes its transition.
SpecOrchFair == SpecOrch /\ WF_vars(NextOrch)

NextSynth ==
    \/ ExtractPlanes
    \/ StageTableBoxes
    \/ ServerTableBoxes
    \/ StageSendGoal
    \/ ServerSendGoal
    \/ SynthReturns

SpecSynth == Init /\ [][NextSynth]_vars

NextOffset ==
    \/ TakeCandidate
    \/ OffsetCandidate
    \/ TransformPose
    \/ NextCandidate

SpecOffset == Init /\ [][NextOffset]_vars

\* The machine that __main__ of statemachine.py runs (line 103), with the
\* collision server its two batch stages are clients of.
InitPipeline ==
    /\ GraspIdle
    /\ safety_distance = SafetyDefault
    /\ CollIdle
    /\ sm = "statemachine"
    /\ enable_userinput = TRUE
    /\ do_handover = TRUE
    /\ state = Machine[1].label
    /\ prev = "" /\ outcome = "" /\ env_isDone = "none"
    /\ perception = "none"
    /\ char_in = "" /\ find_grasppoint_method = -1 /\ found_grasp_pose = FALSE
    /\ SynthIdle
    /\ OffsetIdle
    /\ LinkIdle

NextPipeline ==
    \/ RobotControl
    \/ FindGraspUserInput
    \/ MethodDecision
    \/ FindGrasp
    \/ ExecuteGraspUserInput
    \/ CollisionObjectsSend
    \/ CollisionEnvironmentSend
    \/ ExecuteGrasp
    \/ Handover
    \/ ExecuteSentBatch
    \/ Dispatch
    \/ WaitCheck
    \/ Poll
    \/ Sleep
    \/ Finish
    \/ SceneProcess
    \/ ResultArrives

SpecPipeline == InitPipeline /\ [][NextPipeline]_vars

\* Cycle after cycle, the server applies the batch of CREATE_COLLISION_OBJECTS
\* to the scene it has had since its construction.
NextCycle ==
    \/ ExecuteStageBatch
    \/ Dispatch
    \/ WaitCheck
    \/ Poll
    \/ Sleep
    \/ Finish
    \/ ExecuteReturns
    \/ SceneProcess

SpecCycle == Init /\ [][NextCycle]_vars

(***************************************************************************)
(* Claims about ExecuteGraspServer.execute, under SpecGrasp                *)
(***************************************************************************)
AllFramed(poses) == \A i \in 1..Len(poses) : poses[i].frame # ""

\* A candidate is feasible when the planner returns a plan with a waypoint.
Feasible(c) == c.frame # "" /\ c.pts > 0

\* The first feasible candidate in input order (0: none).
FirstFeasible(poses) ==
    IF \E i \in 1..Len(poses) : Feasible(poses[i])
    THEN CHOOSE i \in 1..Len(poses) :
             Feasible(poses[i]) /\ \A j \in 1..(i - 1) : ~Feasible(poses[j])
    ELSE 0

MotionIssued == \E k \in 1..Len(cmds) : cmds[k].op \in MotionOps

\* The request went through the post-grasp sequence and the verification.
Verified == gpc = "done" /\ step = Len(PostGraspSeq(safety_distance, target))

\* C1: with every candidate carrying a frame tag and at least one feasible
\* candidate, plans are requested for the candidates in input order up to the
\* first feasible one and for none after it, and the plan execution is
\* commanded for the first feasible candidate and for no other.
C1_GreedySelection ==
    LET ff == FirstFeasible(grasp_poses) IN
    (AllFramed(grasp_poses) /\ ff > 0) =>
        /\ \A k \in 1..Len(planned) : planned[k] = k /\ k <= ff
        /\ \A k \in 1..Len(cmds) : cmds[k].op = "go" => cmds[k].arg = ff
        /\ gpc = "done" => /\ Len(planned) = ff
                           /\ \E k \in 1..Len(cmds) : cmds[k] = Cmd("go", ff)

\* C1 witness: three candidates, the first infeasible, the second and the
\* third feasible; the second was executed.
C1_Witness ==
    /\ gpc = "done"
    /\ Len(grasp_poses) = 3
    /\ AllFramed(grasp_poses)
    /\ grasp_poses[1].pts = 0 /\ grasp_poses[2].pts > 0 /\ grasp_poses[3].pts > 0
    /\ planned = <<1, 2>>
    /\ cmds[1] = Cmd("go", 2)

\* C2: with no feasible candidate (the empty list included) no motion command
\* is ever issued, and the request ends with one aborted report carrying
\* success = false; when every candidate carries a frame tag it is the
\* "no grasp found" failure.
C2_NoFeasibleNoMotion ==
    FirstFeasible(grasp_poses) = 0 =>
        /\ ~MotionIssued
        /\ gpc = "done" => /\ reports = <<"aborted">>
                           /\ res_success = FALSE
                           /\ AllFramed(grasp_poses) => log = "no grasp found"

\* C2 witness: two framed candidates, both planned, neither feasible.
C2_Witness ==
    /\ gpc = "done"
    /\ Len(grasp_poses) = 2
    /\ AllFramed(grasp_poses)
    /\ FirstFeasible(grasp_poses) = 0
    /\ planned = <<1, 2>>
    /\ reports = <<"aborted">>

\* C3: a candidate with an empty frame tag anywhere in the list makes the
\* whole request fail as an invalid goal, with no motion for any candidate.
C3_InvalidAnywhereAborts ==
    (gpc = "done" /\ ~AllFramed(grasp_poses)) =>
        /\ reports = <<"aborted">>
        /\ log = "Not a valid goal. Aborted execution!"
        /\ ~MotionIssued

\* C4 as stated: after the post-grasp sequence and the stronger force the
\* request succeeds exactly when the aperture is below the threshold.
C4_SuccessBelowThreshold ==
    Verified => (reports = <<"succeeded">> <=> distance < ApertureThreshold)

\* C4 amended: after the post-grasp sequence and the stronger force the
\* request succeeds exactly when the aperture is above the threshold;
\* otherwise the gripper is opened and the request is aborted as a failed
\* grasp.
C4_SuccessAboveThreshold ==
    Verified =>
        /\ Len(cmds) > Len(PostGraspSeq(safety_distance, target))
        /\ cmds[Len(PostGraspSeq(safety_distance, target)) + 1]
               = Cmd("apply_force", VerifyForce)
        /\ IF distance > ApertureThreshold
           THEN reports = <<"succeeded">> /\ res_success = TRUE
           ELSE /\ reports = <<"aborted">>
                /\ res_success = FALSE
                /\ log = "grasping failed"
                /\ cmds[Len(cmds)] = Cmd("command", OpenCommand)

\* C4 witness: the aperture of the claim's example, -0.01, after a verified
\* grasp: the request is aborted.
C4_Witness ==
    /\ Verified
    /\ distance = -10
    /\ reports = <<"aborted">>

\* C19 as stated: after the plan is executed the gripper closes with the
\* closing force, then the end effector moves by +safety_distance, is raised
\* by 0.05 and moves by -safety_distance, the base retreats by 0.2, the arm
\* goes to neutral, the stronger force is applied and the aperture is read.
C19_CloseThenApproach ==
    Verified =>
        /\ Len(cmds) >= 8
        /\ SubSeq(cmds, 1, 8) =
               << Cmd("go", target),
                  Cmd("apply_force", 30),
                  Cmd("move_end_effector_by_line", safety_distance),
                  Cmd("move_end_effector_pose", 50),
                  Cmd("move_end_effector_by_line", -safety_distance),
                  Cmd("go_rel", -200),
                  Cmd("move_to_neutral", 0),
                  Cmd("apply_force", 50) >>

\* C19 amended: after the plan is executed the end effector moves by
\* +safety_distance, then the gripper closes with the closing force, the end
\* effector is raised by 0.05 and moves by -safety_distance, the base
\* retreats by 0.2, the arm goes to neutral, the stronger force is applied
\* and the aperture is read; while the sequence runs the commands sent are
\* a prefix of it and nothing is reported.
C19_ApproachThenClose ==
    LET order == << Cmd("go", target),
                    Cmd("move_end_effector_by_line", safety_distance),
                    Cmd("apply_force", 30),
                    Cmd("move_end_effector_pose", 50),
                    Cmd("move_end_effector_by_line", -safety_distance),
                    Cmd("go_rel", -200),
                    Cmd("move_to_neutral", 0),
                    Cmd("apply_force", 50) >>
    IN  /\ gpc = "post" => /\ Len(cmds) < 8
                           /\ cmds = SubSeq(order, 1, Len(cmds))
                           /\ reports = << >>
        /\ Verified => /\ Len(cmds) >= 8
                       /\ SubSeq(cmds, 1, 8) = order
                       /\ Len(reports) = 1

\* C19 witness: a grasp with a safety distance of 0.05 that went through the
\* whole sequence and was verified.
C19_Witness ==
    /\ Verified
    /\ safety_distance = 50
    /\ cmds[2] = Cmd("move_end_effector_by_line", 50)
    /\ cmds[3] = Cmd("apply_force", CloseForce)
    /\ distance = 20
    /\ reports = <<"succeeded">>

\* C28: a request that got a cancel request while execute was running ends
\* with the report aborted, never with succeeded.
C28_CancelledNeverSucceeds ==
    (gpc = "done" /\ preempt_request) => reports = <<"aborted">>

\* C30: a request that has ended has exactly one terminal report, succeeded
\* or aborted, on each path of execute, and a request that has not ended
\* has none.
C30_ExactlyOneReport ==
    /\ gpc = "done" => (Len(reports) = 1 /\ reports[1] \in {"succeeded", "aborted"})
    /\ gpc \in {"loop", "post"} => reports = << >>

\* C30 witness: the second candidate has no frame tag, after a first one
\* without a feasible plan: the request ended with the one report aborted.
C30_Witness ==
    /\ gpc = "done"
    /\ Len(grasp_poses) = 2
    /\ planned = <<1>>
    /\ grasp_poses[2].frame = ""
    /\ reports = <<"aborted">>
    /\ cmds = << >>

(***************************************************************************)
(* Claims about CreateCollisionEnvironmentServer, under SpecColl and       *)
(* SpecWait                                                                *)
(***************************************************************************)
\* The request an entry's method publishes.
ReqOf(e) ==
    CASE e.method = "ADD" -> Req("add_box", e.name)
      [] e.method = "REMOVE" -> Req("remove_world_object", e.name)
      [] e.method = "ATTACH" -> Req("attach_box", e.name)
      [] e.method = "DETACH" -> Req("remove_attached_object", e.name)
      [] OTHER -> NoReq

\* The requests of the first k entries of batch g, in batch order.
RECURSIVE RequestsOf(_, _)
RequestsOf(g, k) ==
    IF k = 0 THEN <<>>
    ELSE IF g[k].method = "OTHER" THEN RequestsOf(g, k - 1)
    ELSE Append(RequestsOf(g, k - 1), ReqOf(g[k]))

\* The post-condition wait_for_state_update is waiting for holds in the scene.
PostHolds ==
    /\ (box_name \in known) = exp_known
    /\ (box_name \in attached) = exp_attached

\* wait_for_state_update is at the loop condition and leaves the loop: it
\* returns False at the clock reading seconds.
ReturnsFailure == cpc = "check" /\ ~(seconds < timeout /\ ~shutdown)

\* The two entries before ci were m1 and then m2 of the same name, and both
\* mutations returned True.
RoundTripDone(m1, m2) ==
    /\ cpc \in {"loop", "done"}
    /\ ci >= 3
    /\ goal[ci - 2].method = m1
    /\ goal[ci - 1].method = m2
    /\ goal[ci - 2].name = goal[ci - 1].name
    /\ ret[ci - 2] = "ok"
    /\ ret[ci - 1] = "ok"
    /\ snap.set

\* C5: the aggregate sent for a batch is true exactly when no mutation of the
\* batch returned failure; every entry of the batch was handled.
C5_AggregateIsDone ==
    cpc = "done" =>
        /\ Len(ret) = Len(goal)
        /\ result = IF \A i \in 1..Len(ret) : ret[i] # "failed"
                    THEN "true" ELSE "false"

\* C5 witness: a batch of two whose first mutation failed and whose second
\* succeeded; the aggregate is false.
C5_Witness ==
    /\ cpc = "done"
    /\ ret = <<"failed", "ok">>
    /\ result = "false"

\* C6: whatever the mutations of a batch returned, the requests of all its
\* entries were given to the scene, in batch order: a mutation that timed out
\* does not stop the later ones.
C6_ContinuesAfterTimeout ==
    /\ cpc = "loop" => issued = RequestsOf(goal, ci - 1)
    /\ cpc = "done" => issued = RequestsOf(goal, Len(goal))

\* C6 witness: an ADD that never confirmed, followed by a mutation of the
\* other name that was applied and confirmed.
C6_Witness ==
    /\ cpc = "done"
    /\ Len(goal) = 2
    /\ goal[1].method = "ADD"
    /\ goal[1].name # goal[2].name
    /\ goal[2].method = "ADD"
    /\ ret = <<"failed", "ok">>
    /\ Len(issued) = 2
    /\ goal[2].name \in known
    /\ goal[1].name \notin known
    /\ result = "false"

C8_KnownAttachedDisjoint == known \cap attached = {}

\* C9 as stated: ADD then REMOVE of one name, both confirmed, leave the
\* known-set as it was before the ADD.
C9_AddRemoveRestoresKnown ==
    RoundTripDone("ADD", "REMOVE") => known = snap.known

\* C9 amended: ADD then REMOVE of one name, both confirmed, leave the
\* known-set as it was before the ADD without that name (so exactly as it
\* was when the name was not known before), and the attached-set as it was.
C9_AddRemoveDropsName ==
    RoundTripDone("ADD", "REMOVE") =>
        /\ known = snap.known \ {goal[ci - 1].name}
        /\ attached = snap.attached

\* C9 witness: the round trip of a name that was not known, with the other
\* name in the known-set throughout.
C9_Witness ==
    /\ RoundTripDone("ADD", "REMOVE")
    /\ goal[ci - 1].name \notin snap.known
    /\ snap.known # {}
    /\ known = snap.known

\* C10 as stated: ATTACH then DETACH of one name, both confirmed, leave the
\* attached-set as it was before the ATTACH.
C10_AttachDetachRestoresAttached ==
    RoundTripDone("ATTACH", "DETACH") => attached = snap.attached

\* C10 amended: ATTACH then DETACH of one name, both confirmed, leave the
\* attached-set as it was before the ATTACH without that name (so exactly as
\* it was when the name was not attached before); the name is then known.
C10_AttachDetachDropsName ==
    RoundTripDone("ATTACH", "DETACH") =>
        /\ attached = snap.attached \ {goal[ci - 1].name}
        /\ known = snap.known \cup {goal[ci - 1].name}

\* C10 witness: the round trip of a name that was not attached, with the
\* other name attached throughout.
C10_Witness ==
    /\ RoundTripDone("ATTACH", "DETACH")
    /\ goal[ci - 1].name \notin snap.attached
    /\ snap.attached # {}
    /\ attached = snap.attached

\* The post-condition of a mutation, on the two memberships p a poll read.
PostCondition(method, p) ==
    CASE method = "ADD" -> p.known
      [] method = "REMOVE" -> ~p.known /\ ~p.attached
      [] method = "ATTACH" -> p.attached /\ ~p.known
      [] method = "DETACH" -> p.known /\ ~p.attached
      [] OTHER -> FALSE

\* C20: when a mutation of the batch has returned success, the memberships
\* its last poll read satisfy its post-condition: ADD - known; REMOVE - in
\* neither set; ATTACH - attached and not known; DETACH - known and not
\* attached.
C20_SuccessMeansPostCondition ==
    (cpc = "loop" /\ ci > 1 /\ ret[ci - 1] = "ok") =>
        PostCondition(goal[ci - 1].method, polled)

\* C20 witness: an ADD and then an ATTACH of the same name, both confirmed;
\* the last poll read the name attached and not known.
C20_Witness ==
    /\ cpc = "loop"
    /\ ci = 3
    /\ goal[1].method = "ADD" /\ goal[2].method = "ATTACH"
    /\ goal[1].name = goal[2].name
    /\ ret = <<"ok", "ok">>
    /\ polled = [known |-> FALSE, attached |-> TRUE]

\* The batch is waiting for the REMOVE of a name that is attached.
RemovingAttached ==
    /\ cpc \in {"check", "poll", "sleep"}
    /\ ci > 0
    /\ goal[ci].method = "REMOVE"
    /\ goal[ci].name \in attached

C22_OctomapClearedOncePerBatch ==
    /\ cpc # "idle" => octomap_clears = 1
    /\ issued # << >> => octomap_clears = 1
    /\ pending # NoReq => octomap_clears = 1

\* C22 witness: the empty batch is done, with one clearing of the octomap.
C22_Witness ==
    /\ cpc = "done"
    /\ goal = << >>
    /\ octomap_clears = 1
    /\ result = "true"

\* The loop of execute is at an entry whose method is none of the four.
AtUnknownMethod ==
    /\ cpc = "loop"
    /\ ci <= Len(goal)
    /\ goal[ci].method \notin {"ADD", "REMOVE", "ATTACH", "DETACH"}

\* C32: an entry whose method is none of ADD, REMOVE, ATTACH, DETACH is
\* skipped: no request is given to the scene, the known-set, the attached-set
\* and isDone stay as they are, and the loop goes on with the next entry.
C32_UnknownMethodSkipped ==
    [][AtUnknownMethod =>
          /\ known' = known
          /\ attached' = attached
          /\ isDone' = isDone
          /\ issued' = issued
          /\ pending' = NoReq
          /\ cpc' = "loop"
          /\ ci' \in {ci, ci + 1}]_vars

\* C32 witness: a batch of an ADD that succeeded and an entry of another
\* method is done: the name is still known and the aggregate is true.
C32_Witness ==
    /\ cpc = "done"
    /\ Len(goal) = 2
    /\ goal[1].method = "ADD"
    /\ goal[2].method = "OTHER"
    /\ goal[1].name = goal[2].name
    /\ ret = <<"ok", "skipped">>
    /\ known = {goal[1].name}
    /\ attached = {}
    /\ result = "true"

(***************************************************************************)
(* Claims about the stages and the server together, under SpecPipeline     *)
(***************************************************************************)
\* The batches that were sent and whose execute has not returned.
BatchesInFlight == Len(inbox) + (IF cpc = "idle" THEN 0 ELSE 1)

\* The stages that send a batch to the collision server.
BatchStages == {"CREATE_COLLISION_OBJECTS", "CREATE_COLLISION_ENVIRONMENT"}

\* C26: at most one batch is sent and not finished, and while it is, the
\* machine is in the stage that sent it and that stage is blocked waiting
\* for the result: no other stage runs and no second batch is sent.
C26_OneStageOneBatch ==
    /\ BatchesInFlight <= 1
    /\ BatchesInFlight = 1 => (stage_pc = "waiting" /\ state \in BatchStages)
    /\ stage_pc = "waiting" => BatchesInFlight = 1

\* C26 witness: CREATE_COLLISION_ENVIRONMENT waits while the server is in the
\* middle of its batch, after the batch of CREATE_COLLISION_OBJECTS was done.
C26_Witness ==
    /\ state = "CREATE_COLLISION_ENVIRONMENT"
    /\ prev = "CREATE_COLLISION_OBJECTS"
    /\ stage_pc = "waiting"
    /\ cpc = "sleep"
    /\ ci = 2
    /\ inbox = << >>

(***************************************************************************)
(* Claims about the scene over the cycles, under SpecCycle                 *)
(***************************************************************************)
\* The names of the entries of the batch that is handled.
BatchNames == {goal[i].name : i \in 1..Len(goal)}

\* C24: when the batch of a cycle is done, every name of the known-set is a
\* name of that batch: nothing added in an earlier cycle is left.
C24_NoStalePrimitive ==
    cpc = "done" => known \subseteq BatchNames

(***************************************************************************)
(* Claims about the state machines, under SpecOrch                         *)
(***************************************************************************)
\* The states of statemachine.py a failure may be sent back to.
RetryGates == {"FIND_GRASP_USERINPUT", "METHOD_DECISION", "FIND_GRASP"}

\* The machine has ended: with a container outcome or with an error.
Ended ==
    state \in ContainerOutcomes \cup {"InvalidTransitionError", "InvalidUserCodeError"}

\* C12: the state after EXECUTE_GRASP is GO_BACK_AFTER_GRASP when the grasp
\* succeeded and GO_TO_NEUTRAL when it was aborted or preempted, and nothing
\* else.
C12_ExecuteGraspSuccessors ==
    (sm = "statemachine" /\ prev = "EXECUTE_GRASP") =>
        /\ outcome = "succeeded" => state = "GO_BACK_AFTER_GRASP"
        /\ outcome \in {"aborted", "preempted"} => state = "GO_TO_NEUTRAL"
        /\ state \in {"GO_BACK_AFTER_GRASP", "GO_TO_NEUTRAL"}

\* C12 witness: with the operator gates enabled, a preempted grasp has sent
\* the machine to GO_TO_NEUTRAL.
C12_Witness ==
    /\ sm = "statemachine"
    /\ enable_userinput
    /\ prev = "EXECUTE_GRASP"
    /\ outcome = "preempted"
    /\ state = "GO_TO_NEUTRAL"

\* C13 as stated: the state after an aborted or preempted FIND_GRASP is the
\* operator gate when the gates are enabled and METHOD_DECISION when not.
C13_FindGraspAbortToGateOrDecision ==
    (sm = "statemachine" /\ prev = "FIND_GRASP"
        /\ outcome \in {"aborted", "preempted"}) =>
        state = IF enable_userinput THEN "FIND_GRASP_USERINPUT"
                ELSE "METHOD_DECISION"

\* C13 amended: the state after an aborted or preempted FIND_GRASP is the
\* operator gate when the gates are enabled and FIND_GRASP itself when not.
C13_FindGraspAbortToGateOrItself ==
    (sm = "statemachine" /\ prev = "FIND_GRASP"
        /\ outcome \in {"aborted", "preempted"}) =>
        state = IF enable_userinput THEN "FIND_GRASP_USERINPUT"
                ELSE "FIND_GRASP"

\* C13 witness: without the gates, an aborted FIND_GRASP is run again.
C13_Witness ==
    /\ sm = "statemachine"
    /\ ~enable_userinput
    /\ prev = "FIND_GRASP"
    /\ outcome = "aborted"
    /\ state = "FIND_GRASP"

\* C14: after a CREATE_COLLISION_ENVIRONMENT that failed (aborted, preempted,
\* or a batch whose isDone is false) the machine is at a retry gate and not
\* in EXECUTE_GRASP.
C14_FailedEnvironmentToRetryGate ==
    (sm = "statemachine" /\ prev = "CREATE_COLLISION_ENVIRONMENT"
        /\ (outcome \in {"aborted", "preempted"} \/ env_isDone = "false")) =>
        /\ state \in RetryGates
        /\ state # "EXECUTE_GRASP"

\* C15: the state after the disposal stage, HANDOVER or CALC_AND_SORT_POSES,
\* is GO_TO_NEUTRAL whatever its outcome.
C15_DisposalToHome ==
    (sm = "statemachine" /\ prev \in {"HANDOVER", "CALC_AND_SORT_POSES"}) =>
        state = "GO_TO_NEUTRAL"

\* C16: a machine ends only with the outcome 'end', after the quit command
\* at a gate; no outcome of the stages from FIND_GRASP to the disposal stage
\* ends it.
C16_EndsOnlyByQuit ==
    Ended =>
        /\ state = "end"
        /\ prev \in {"USER_INPUT", "FIND_GRASP_USERINPUT", "EXECUTE_GRASP_USERINPUT"}
        /\ char_in = "q"

\* C25: GO_TO_NEUTRAL is the initial state of the machine of
\* create_statemachine; EXECUTE_GRASP is entered only from a succeeded
\* CREATE_COLLISION_ENVIRONMENT, that only from a succeeded
\* CREATE_COLLISION_OBJECTS, and that only from a succeeded FIND_GRASP, with
\* the gates enabled through the operator's confirmation of that grasp.
C25_SceneBeforeGrasp ==
    sm = "statemachine" =>
        /\ prev = "" => state = "GO_TO_NEUTRAL"
        /\ state = "EXECUTE_GRASP" =>
              (prev = "CREATE_COLLISION_ENVIRONMENT" /\ outcome = "succeeded")
        /\ state = "CREATE_COLLISION_ENVIRONMENT" =>
              (prev = "CREATE_COLLISION_OBJECTS" /\ outcome = "succeeded")
        /\ state = "CREATE_COLLISION_OBJECTS" =>
              /\ outcome = "succeeded"
              /\ prev = IF enable_userinput THEN "EXECUTE_GRASP_USERINPUT"
                        ELSE "FIND_GRASP"
        /\ state = "EXECUTE_GRASP_USERINPUT" =>
              (prev = "FIND_GRASP" /\ outcome = "succeeded")

\* C25 witness: with the gates enabled the machine is about to run
\* EXECUTE_GRASP, after a succeeded CREATE_COLLISION_ENVIRONMENT whose batch
\* was applied.
C25_Witness ==
    /\ sm = "statemachine"
    /\ enable_userinput
    /\ state = "EXECUTE_GRASP"
    /\ prev = "CREATE_COLLISION_ENVIRONMENT"
    /\ outcome = "succeeded"
    /\ env_isDone = "true"
    /\ perception = "boxes"

\* CREATE_COLLISION_OBJECTS was the last state to run, and it got no snapshot
\* or its extractor call failed.
PerceptionFailed ==
    /\ sm = "statemachine"
    /\ prev = "CREATE_COLLISION_OBJECTS"
    /\ perception \in {"ROSException", "ServiceException"}

\* C23: when CREATE_COLLISION_OBJECTS gets no snapshot within 15 s or the
\* extractor call fails, the stage ends with the outcome 'aborted', the
\* orchestrator routes it to a state, and the machine has not ended.
C23_PerceptionFailureAborts ==
    PerceptionFailed =>
        /\ outcome = "aborted"
        /\ state \in Labels(Machine)
        /\ ~Ended

\* C29: when every call of a state returns, a machine of create_statemachine
\* that enters EXECUTE_GRASP comes to GO_TO_NEUTRAL again, with or without
\* the handover.
C29_GraspCycleReachesHome ==
    (sm = "statemachine" /\ state = "EXECUTE_GRASP") ~> (state = "GO_TO_NEUTRAL")

(***************************************************************************)
(* Claims about the collision objects, under SpecSynth                     *)
(***************************************************************************)
\* The entry was built from a sensed plane, not one of the fixed slabs.
FromPlane(o) == o.idx >= 0

IsFixed(o) == o.idx < 0

\* The sensed plane's center is not below the height floor.
NotBelowFloor(b) == b.cz >= HeightFloor

\* CreateCollisionObjects.execute has built the batch it sends.
StageBatchSent == spc = "sent" /\ builder = "CreateCollisionObjects"

\* C11: in the batch of CREATE_COLLISION_OBJECTS the sensed planes whose
\* center is below 0.2 have no entry, and the planes at or above it have, in
\* their order, one ADD entry each, 0.04 wider in x and in y than sensed.
C11_SceneFilterLaw ==
    StageBatchSent =>
        LET tables == SelectSeq(collision_objects, FromPlane)
            kept == SelectSeq(planes, NotBelowFloor)
        IN  /\ Len(tables) = Len(kept)
            /\ \A i \in 1..Len(tables) :
                 i <= Len(kept) =>
                     /\ tables[i].method = "ADD"
                     /\ tables[i].size_x = kept[i].sx + Inflate
                     /\ tables[i].size_y = kept[i].sy + Inflate

\* C17: the batch always holds exactly five fixed ADD entries: the floor at
\* the base position and four walls centered at base x + 2.0, base x - 2.0,
\* base y + 2.0 and base y - 2.0.
C17_FiveFixedSlabs ==
    spc = "sent" =>
        LET fixed == SelectSeq(collision_objects, IsFixed) IN
        /\ Len(fixed) = 5
        /\ \A i \in 1..Len(fixed) : fixed[i].method = "ADD"
        /\ \E i \in 1..Len(fixed) :
             fixed[i].name = "floor" /\ fixed[i].x = base.x /\ fixed[i].y = base.y
        /\ {<<fixed[i].x, fixed[i].y>> : i \in {j \in 1..Len(fixed) : fixed[j].name # "floor"}}
             = { <<base.x + 2000, base.y>>, <<base.x - 2000, base.y>>,
                 <<base.x, base.y + 2000>>, <<base.x, base.y - 2000>> }

\* C31: the batch of CREATE_COLLISION_OBJECTS has only ADD entries, one for
\* each sensed plane the stage keeps (it keeps them all) and the five fixed
\* ones, and no two entries have the same name.
C31_BatchShape ==
    StageBatchSent =>
        /\ \A i \in 1..Len(collision_objects) : collision_objects[i].method = "ADD"
        /\ Len(SelectSeq(collision_objects, FromPlane)) = Len(table_bbs)
        /\ Len(table_bbs) = Len(planes)
        /\ Len(collision_objects) = Len(table_bbs) + 5
        /\ \A i, j \in 1..Len(collision_objects) :
             i # j => ObjectId(collision_objects[i]) # ObjectId(collision_objects[j])

\* C31 witness: two planes were sensed and the batch has seven entries.
C31_Witness ==
    /\ StageBatchSent
    /\ Len(planes) = 2
    /\ Len(collision_objects) = 7
    /\ ObjectId(collision_objects[2]) = "Table_plane_1"
    /\ ObjectId(collision_objects[7]) = "right_wall"

(***************************************************************************)
(* Claims about the safety offset, under SpecOffset                        *)
(***************************************************************************)
\* C18: for a candidate with the identity orientation and safety distance d
\* the offset position, before the transform to /odom, has the x and y of
\* the candidate and its z minus d.
C18_OffsetLaw ==
    (opc \in {"offset", "target"} /\ orientation = IdentityQuaternion) =>
        /\ offset_position.x = pose_in.x
        /\ offset_position.y = pose_in.y
        /\ offset_position.z = pose_in.z - osd

\* C18 witness: the default safety distance 0.08 taken off a z of 0.4, the
\* candidate in a frame that is shifted against /odom.
C18_Witness ==
    /\ opc = "target"
    /\ orientation = IdentityQuaternion
    /\ osd = SafetyDefault
    /\ pose_in.z = 400
    /\ offset_position.z = 320
    /\ odom_shift.x # 0
    /\ target_position.x = pose_in.x + odom_shift.x

\* C27: the candidate keeps the position it was received with, also after
\* its safety-offset pose was computed and the pose target was set.
C27_CandidateUnchanged ==
    opc \in {"candidate", "offset", "target"} => goal_position = pose_in

=============================================================================
